---- MODULE Spec2Model ----
(***************************************************************************)
(* Bid evaluation and document-understanding pipeline of the procurement   *)
(* backend: chunker, response repairer, evaluation orchestrator, vendor    *)
(* extractor and matcher, annotation locator.                              *)
(*                                                                         *)
(* Strings are sequences of one-character strings.  Python indices are     *)
(* 0-based; the helpers below take and return Python indices.              *)
(***************************************************************************)
EXTENDS Integers, Sequences, FiniteSets, TLC

VARIABLES
    \* chunk_text: the text, the loop's locals, the result, the position
    text, start, end, chunks, cpc,
    \* correct_annotation_pages: the arguments, the result, the position
    annotations, pageTexts, corrected, lpc,
    \* _parse_json_from_response: the raw model output, the outcome, the position
    rawText, repaired, rpc,
    \* evaluate_bid, evaluate_bid_with_context, extract_vendor_and_rep: the
    \* operation called, whether OLLAMA_BASE_URL is set, the arguments, the
    \* position, the provider calls made, the warnings logged, the outcome
    op, configured, bidText, summary, tchunks, notes, epc, invocations, warnings, result,
    \* extract_vendor: whether the declarative base's constructor rejects a keyword
    \* that is no column, whether one event loop serves the requests, the
    \* vendors and vendor_reps tables, the vendors id sequence, the bids'
    \* vendor columns, each request's position and locals, the calls made
    \* to the verification agents
    ctorRejects, serial, vendors, representatives, nextVendorId, bids, reqs, verifications,
    \* the bid endpoints: rfps.bids_locked, the bids row, the
    \* bid_evaluation_history and bid_audit_events rows of the bid, the
    \* request waiting for its worker thread, the last response sent, the
    \* number of requests answered
    bids_locked, bid, evaluation_history, audit_events, job, response, served

chunkVars == <<text, start, end, chunks, cpc>>
locatorVars == <<annotations, pageTexts, corrected, lpc>>

repairVars == <<rawText, repaired, rpc>>
evalVars == <<op, configured, bidText, summary, tchunks, notes, epc, invocations, warnings, result>>

vendorVars ==
    <<ctorRejects, serial, vendors, representatives, nextVendorId, bids, reqs, verifications>>

workflowVars == <<bids_locked, bid, evaluation_history, audit_events, job, response, served>>

vars == <<chunkVars, locatorVars, repairVars, evalVars, vendorVars, workflowVars>>

notChunk == <<locatorVars, repairVars, evalVars, vendorVars, workflowVars>>
notLocator == <<chunkVars, repairVars, evalVars, vendorVars, workflowVars>>
notRepair == <<chunkVars, locatorVars, evalVars, vendorVars, workflowVars>>
notEval == <<chunkVars, locatorVars, repairVars, vendorVars, workflowVars>>
notVendor == <<chunkVars, locatorVars, repairVars, evalVars, workflowVars>>
notWorkflow == <<chunkVars, locatorVars, repairVars, evalVars, vendorVars>>

None == "None"

\* a component that is not the subject of a specification stays idle
ChunkIdle ==
    /\ text = <<>>
    /\ start = 0
    /\ end = 0
    /\ chunks = <<>>
    /\ cpc = "idle"

LocatorIdle ==
    /\ annotations = <<>>
    /\ pageTexts = <<>>
    /\ corrected = <<>>
    /\ lpc = "idle"

RepairIdle ==
    /\ rawText = <<>>
    /\ repaired = <<>>
    /\ rpc = "idle"

EvalIdle ==
    /\ op = "none"
    /\ configured = FALSE
    /\ bidText = <<>>
    /\ summary = <<>>
    /\ tchunks = <<>>
    /\ notes = <<>>
    /\ epc = "idle"
    /\ invocations = <<>>
    /\ warnings = <<>>
    /\ result = <<>>

\* the two extract-vendor requests, each for the bid of its number
Requests == {1, 2}

\* "Processing" and the one character U+2026
VENDOR_EXTRACT_PLACEHOLDER == <<"P", "r", "o", "c", "e", "s", "s", "i", "n", "g", "...">>

\* a bid as upload_bid leaves it, a request that has not started
UploadedBid == [vendor_id |-> 0, vendor_name |-> VENDOR_EXTRACT_PLACEHOLDER]
IdleRequest ==
    [pc |-> "idle", extraction |-> [t |-> "null", v |-> <<>>], existing |-> 0, vendor |-> 0,
     exc |-> <<>>]

VendorIdle ==
    /\ ctorRejects = FALSE
    /\ serial = TRUE
    /\ vendors = <<>>
    /\ representatives = <<>>
    /\ nextVendorId = 1
    /\ bids = [b \in Requests |-> UploadedBid]
    /\ reqs = [r \in Requests |-> IdleRequest]
    /\ verifications = <<>>

\* no request in the worker thread, no response sent yet
NoJob == [kind |-> "none"]
NoResponse == [to |-> "none", request |-> [to |-> "none"], code |-> 0, detail |-> ""]

WorkflowIdle ==
    /\ bids_locked = FALSE
    /\ bid = <<>>
    /\ evaluation_history = <<>>
    /\ audit_events = <<>>
    /\ job = NoJob
    /\ response = NoResponse
    /\ served = 0

(***************************************************************************)
(* Python string primitives                                                *)
(***************************************************************************)
Whitespace == {" ", "\n", "\t", "\r"}

MinInt(a, b) == IF a < b THEN a ELSE b
MaxInt(a, b) == IF a > b THEN a ELSE b

\* slice-index normalisation of s[a:b], s.find(x, a, b), s.rfind(x, a, b)
PyIndex(i, n) == IF i < 0 THEN MaxInt(i + n, 0) ELSE MinInt(i, n)

\* s[a:b]
Slice(s, a, b) == SubSeq(s, PyIndex(a, Len(s)) + 1, PyIndex(b, Len(s)))

\* s[:n] for n >= 0
Prefix(s, n) == SubSeq(s, 1, MinInt(n, Len(s)))

\* s.strip()
Strip(s) ==
    IF \A i \in 1..Len(s) : s[i] \in Whitespace THEN <<>>
    ELSE LET first == CHOOSE i \in 1..Len(s) :
                          s[i] \notin Whitespace /\ \A j \in 1..(i - 1) : s[j] \in Whitespace
             last  == CHOOSE i \in 1..Len(s) :
                          s[i] \notin Whitespace /\ \A j \in (i + 1)..Len(s) : s[j] \in Whitespace
         IN  SubSeq(s, first, last)

\* sub occurs in s at Python index i
OccursAt(s, sub, i) ==
    /\ i >= 0
    /\ i + Len(sub) <= Len(s)
    /\ \A k \in 1..Len(sub) : s[i + k] = sub[k]

\* s.rfind(sub, a, b): highest index in the slice window, -1 when absent
RFind(s, sub, a, b) ==
    LET lo   == PyIndex(a, Len(s))
        hi   == PyIndex(b, Len(s))
        hits == {i \in lo..(hi - Len(sub)) : \A k \in 1..Len(sub) : s[i + k] = sub[k]}
    IN  IF hits = {} THEN -1 ELSE CHOOSE i \in hits : \A j \in hits : j <= i

\* s.find(sub): lowest index, -1 when absent
Find(s, sub) ==
    LET hits == {i \in 0..(Len(s) - Len(sub)) : OccursAt(s, sub, i)}
    IN  IF hits = {} THEN -1 ELSE CHOOSE i \in hits : \A j \in hits : i <= j

\* sub in s
Contains(s, sub) == \E i \in 0..(Len(s) - Len(sub)) : OccursAt(s, sub, i)

(***************************************************************************)
(* Chunker: chunk_text                                                     *)
(***************************************************************************)
CHUNK_SIZE == 1800
CHUNK_OVERLAP == 100

ParagraphBreak == <<"\n", "\n">>
SentenceBreak == <<".", " ">>

\* bound on the chunks a run may collect before the model stops following it
MaxChunks == 6

Filler == <<"a", "b", "c", "d", "e", "f", "g">>

\* a document of length L with paragraph breaks at the Python indices P and
\* sentence breaks at the Python indices S, W leading blanks
TextOf(L, P, S, W) ==
    [i \in 1..L |->
        IF i <= W THEN " "
        ELSE IF \E p \in P : i - 1 \in {p, p + 1} THEN "\n"
        ELSE IF i - 1 \in S THEN "."
        ELSE IF \E s \in S : i - 1 = s + 1 THEN " "
        ELSE Filler[(i % 7) + 1]]

ChunkLengths == {0, 3, 1800, 1801, 1803, 2004, 3700}
BreakPositions == {2, 98, 510, 1000, 1799}
LeadingBlanks == {0, 3}

ChunkInputs ==
    {SubSeq(TextOf(L, P, S, W), 1, L) :
        L \in ChunkLengths,
        P \in {X \in SUBSET BreakPositions : Cardinality(X) <= 1},
        S \in {X \in SUBSET BreakPositions : Cardinality(X) <= 1},
        W \in LeadingBlanks}

\* lines 202-206: empty test, strip, initialisation
ChunkBegin ==
    /\ cpc = "call"
    /\ UNCHANGED notChunk
    /\ IF Strip(text) = <<>>
       THEN /\ cpc' = "done"
            /\ UNCHANGED <<text, start, end, chunks>>
       ELSE /\ text' = Strip(text)
            /\ chunks' = <<>>
            /\ start' = 0
            /\ cpc' = "loop"
            /\ UNCHANGED end

\* the end of the chunk, a break looked for when the text ends at the window
ChunkEndInclusive(t, st) ==
    IF st + CHUNK_SIZE <= Len(t)
    THEN IF RFind(t, ParagraphBreak, st, st + CHUNK_SIZE + 1) > st
         THEN RFind(t, ParagraphBreak, st, st + CHUNK_SIZE + 1) + 2
         ELSE IF RFind(t, SentenceBreak, st, st + CHUNK_SIZE + 1) > st
         THEN RFind(t, SentenceBreak, st, st + CHUNK_SIZE + 1) + 2
         ELSE st + CHUNK_SIZE
    ELSE st + CHUNK_SIZE

\* lines 208-217: the end of the chunk that begins at st
ChunkEnd(t, st) ==
    IF st + CHUNK_SIZE < Len(t)
    THEN IF RFind(t, ParagraphBreak, st, st + CHUNK_SIZE + 1) > st
         THEN RFind(t, ParagraphBreak, st, st + CHUNK_SIZE + 1) + 2
         ELSE IF RFind(t, SentenceBreak, st, st + CHUNK_SIZE + 1) > st
         THEN RFind(t, SentenceBreak, st, st + CHUNK_SIZE + 1) + 2
         ELSE st + CHUNK_SIZE
    ELSE st + CHUNK_SIZE

\* line 221
NextStart(t, e) == IF e < Len(t) THEN e - CHUNK_OVERLAP ELSE Len(t)

\* text[a:b].strip(), computed on the indices of t
StripSlice(t, a, b) ==
    LET lo == PyIndex(a, Len(t)) + 1
        hi == PyIndex(b, Len(t))
    IN  IF \A i \in lo..hi : t[i] \in Whitespace THEN <<>>
        ELSE SubSeq(t,
                 CHOOSE i \in lo..hi :
                     t[i] \notin Whitespace /\ \A j \in lo..(i - 1) : t[j] \in Whitespace,
                 CHOOSE i \in lo..hi :
                     t[i] \notin Whitespace /\ \A j \in (i + 1)..hi : t[j] \in Whitespace)

\* lines 207-217: loop test passed, the end of this chunk is chosen
ChunkFindEnd ==
    /\ cpc = "loop"
    /\ start < Len(text)
    /\ Len(chunks) < MaxChunks
    /\ end' = ChunkEnd(text, start)
    /\ cpc' = "cut"
    /\ UNCHANGED <<text, start, chunks>>
    /\ UNCHANGED notChunk

\* lines 218-221: the chunk is cut out and the next start is set
ChunkCut ==
    /\ cpc = "cut"
    /\ chunks' = IF StripSlice(text, start, end) # <<>>
                 THEN Append(chunks, StripSlice(text, start, end))
                 ELSE chunks
    /\ start' = NextStart(text, end)
    /\ cpc' = "loop"
    /\ UNCHANGED <<text, end>>
    /\ UNCHANGED notChunk

\* lines 207, 222: loop exit and return
ChunkReturn ==
    /\ cpc = "loop"
    /\ start >= Len(text)
    /\ cpc' = "done"
    /\ UNCHANGED <<text, start, end, chunks>>
    /\ UNCHANGED notChunk

ChunkInit ==
    /\ text \in ChunkInputs
    /\ start = 0
    /\ end = 0
    /\ chunks = <<>>
    /\ cpc = "call"
    /\ LocatorIdle
    /\ RepairIdle
    /\ EvalIdle
    /\ VendorIdle
    /\ WorkflowIdle

ChunkNext == ChunkBegin \/ ChunkFindEnd \/ ChunkCut \/ ChunkReturn

SpecChunk == ChunkInit /\ [][ChunkNext]_vars
FairSpecChunk == SpecChunk /\ WF_vars(ChunkNext)

\* the chunks joined again, each chunk after the first without its overlap
RECURSIVE Reconstruct(_, _)
Reconstruct(cs, i) ==
    IF i > Len(cs) THEN <<>>
    ELSE (IF i = 1 THEN cs[i] ELSE SubSeq(cs[i], CHUNK_OVERLAP + 1, Len(cs[i])))
         \o Reconstruct(cs, i + 1)

\* C7: chunk is total - on every input text the call terminates and returns
\* its chunk sequence.
ChunkTerminates == <>(cpc = "done")

\* C8: once chunk has returned, the chunks without their overlaps,
\* concatenated in order, are the trimmed input text.
ChunkReconstructs == cpc = "done" => Reconstruct(chunks, 1) = Strip(text)

\* C21: for an input whose trimmed length is at most 1800 characters, chunk
\* returns the trimmed input as its one chunk, and no chunk at all when the
\* input is empty or blank.
ChunkShortInputIsOneChunk ==
    cpc = "done" /\ Len(Strip(text)) <= CHUNK_SIZE =>
        chunks = IF Strip(text) = <<>> THEN <<>> ELSE <<Strip(text)>>

\* a text of 1800 characters after trimming came back as its one chunk
ChunkedAtTheSize ==
    /\ cpc = "done"
    /\ Len(text) = CHUNK_SIZE
    /\ chunks = <<text>>

\* C22: each chunk after the first begins with the last 100 characters of
\* the chunk before it.
ChunkOverlapIsFixed ==
    \A i \in 2..Len(chunks) :
        /\ Len(chunks[i]) >= CHUNK_OVERLAP
        /\ Len(chunks[i - 1]) >= CHUNK_OVERLAP
        /\ SubSeq(chunks[i], 1, CHUNK_OVERLAP)
               = SubSeq(chunks[i - 1], Len(chunks[i - 1]) - CHUNK_OVERLAP + 1, Len(chunks[i - 1]))

(***************************************************************************)
(* AnnotationLocator: correct_annotation_pages                             *)
(***************************************************************************)
MIN_QUOTE_LEN == 10
MIN_NORM_QUOTE_LEN == 8
PrefixLengths == <<80, 50, 35, 25>>

\* str.lower() on the letters the documents use
LowerChar(c) ==
    CASE c = "A" -> "a" [] c = "B" -> "b" [] c = "C" -> "c" [] c = "D" -> "d"
      [] c = "E" -> "e" [] c = "F" -> "f" [] c = "G" -> "g" [] c = "U" -> "u"
      [] c = "V" -> "v" [] c = "M" -> "m" [] c = "T" -> "t"
      [] OTHER -> c

Lower(s) == [i \in 1..Len(s) |-> LowerChar(s[i])]

\* re.sub(r"\s+", " ", s) on s[lo..hi]: a run of blanks leaves one space,
\* put where the run begins; the two halves are collapsed apart
RECURSIVE CollapseRange(_, _, _)
CollapseRange(s, lo, hi) ==
    IF lo > hi THEN <<>>
    ELSE IF lo = hi
    THEN IF s[lo] \in Whitespace
         THEN IF lo > 1 /\ s[lo - 1] \in Whitespace THEN <<>> ELSE <<" ">>
         ELSE <<s[lo]>>
    ELSE CollapseRange(s, lo, (lo + hi) \div 2) \o CollapseRange(s, (lo + hi) \div 2 + 1, hi)

\* re.sub(r"\s+", " ", s) from the i-th character on
CollapseWs(s, i) == CollapseRange(s, i, Len(s))

\* _normalize_for_search
NormalizeForSearch(s) == CollapseWs(Lower(Strip(s)), 1)

\* lines 69-76: the page text holds the quote or one of its prefixes
PageMatches(normQuote, pageText) ==
    /\ pageText # <<>>
    /\ \/ Contains(NormalizeForSearch(pageText), normQuote)
       \/ \E k \in 1..Len(PrefixLengths) :
              /\ Len(normQuote) >= PrefixLengths[k]
              /\ Contains(NormalizeForSearch(pageText), Prefix(normQuote, PrefixLengths[k]))

\* an optional integer: <<>> when absent, <<n>> when present
Absent == <<>>
Some(n) == <<n>>

\* the slip of storing the 0-based list index as the page number
FoundPageZeroBased(normQuote, pages) ==
    IF \E i \in 1..Len(pages) : PageMatches(normQuote, pages[i])
    THEN Some((CHOOSE i \in 1..Len(pages) :
                  /\ PageMatches(normQuote, pages[i])
                  /\ \A j \in 1..(i - 1) : ~PageMatches(normQuote, pages[j])) - 1)
    ELSE Absent

\* lines 64-78: the 1-based number of the first page that matches, if any
\* (pages[i] here is page_texts[i - 1] there, so found_page = i)
FoundPage(normQuote, pages) ==
    IF \E i \in 1..Len(pages) : PageMatches(normQuote, pages[i])
    THEN Some(CHOOSE i \in 1..Len(pages) :
                 /\ PageMatches(normQuote, pages[i])
                 /\ \A j \in 1..(i - 1) : ~PageMatches(normQuote, pages[j]))
    ELSE Absent

\* lines 51-62: the annotation is a mapping whose quote is long enough
Searchable(ann) ==
    /\ ann.isDict
    /\ Len(Strip(ann.quote)) >= MIN_QUOTE_LEN
    /\ Len(NormalizeForSearch(Strip(ann.quote))) >= MIN_NORM_QUOTE_LEN

\* lines 50-81: one annotation
CorrectOne(ann, pages) ==
    IF ~Searchable(ann) THEN ann
    ELSE IF FoundPage(NormalizeForSearch(Strip(ann.quote)), pages) = Absent THEN ann
    ELSE [ann EXCEPT !.page = FoundPage(NormalizeForSearch(Strip(ann.quote)), pages)]

\* correct_annotation_pages
CorrectAnnotationPages(anns, pages) ==
    IF pages = <<>> \/ anns = <<>> THEN anns
    ELSE [k \in 1..Len(anns) |-> CorrectOne(anns[k], pages)]

\* bounds on the arguments
MaxPages == 2
MaxAnnotations == 1

Letters == <<"t", "h", "e", "c", "a", "u", "v", "m", "o", "n">>

\* a quote of n characters; blanks every sixth character
QuoteOf(n) == [i \in 1..n |-> IF i % 6 = 0 THEN " " ELSE Letters[((i * i + i \div 7) % 10) + 1]]

QuoteLengths == {0, 9, 10, 30, 85}

\* the quote as a document may print it: other case, wider blanks
Printed(q) ==
    [i \in 1..Len(q) |-> IF q[i] \in {"a", "u", "v", "m"}
                          THEN (CASE q[i] = "a" -> "A" [] q[i] = "u" -> "U"
                                  [] q[i] = "v" -> "V" [] OTHER -> "M")
                          ELSE IF q[i] = " " THEN "\n" ELSE q[i]]

CatQuote == <<"t", "h", "e", " ", "c", "a", "t", " ", "s", "a", "t", " ", "o", "n", " ", "t", "h", "e", " ", "m", "a", "t">>
CatPage == <<"T", "h", "e", " ", "c", "a", "t", " ", "s", "a", "t", " ", "o", "n", " ", "t", "h", "e", " ", "m", "a", "t", ".">>
DogPage == <<"A", " ", "d", "o", "g", " ", "r", "a", "n", " ", "f", "a", "r", " ", "a", "w", "a", "y", ".">>

Quotes == {SubSeq(QuoteOf(n), 1, n) : n \in QuoteLengths}
             \cup {<<"a", " ", " ", " ", " ", " ", " ", " ", " ", "b">>, CatQuote}

PageKinds(q) ==
    {<<>>, CatPage, DogPage,
     <<"z", " ">> \o Printed(q) \o <<".", " ", "z">>}
    \cup {Printed(Prefix(q, n)) \o <<"z", "z", "z">> : n \in {7, 24, 25, 50}}

PageGuesses == {Absent, Some(1), Some(5)}

LocatorInit ==
    /\ \E q \in Quotes :
          /\ annotations \in
                 UNION {[1..n -> {[isDict |-> TRUE, quote |-> q, page |-> g] : g \in PageGuesses}
                                 \cup {[isDict |-> FALSE, quote |-> <<>>, page |-> Absent]}] :
                        n \in 0..MaxAnnotations}
          /\ pageTexts \in UNION {[1..n -> PageKinds(q)] : n \in 0..MaxPages}
    /\ corrected = <<>>
    /\ lpc = "call"
    /\ ChunkIdle
    /\ RepairIdle
    /\ EvalIdle
    /\ VendorIdle
    /\ WorkflowIdle

Correct ==
    /\ lpc = "call"
    /\ corrected' = CorrectAnnotationPages(annotations, pageTexts)
    /\ lpc' = "done"
    /\ UNCHANGED <<annotations, pageTexts>>
    /\ UNCHANGED notLocator

LocatorNext == Correct

SpecLocator == LocatorInit /\ [][LocatorNext]_vars

\* the pages whose normalized text holds the whole normalized quote
FullQuotePages(ann) ==
    {i \in 1..Len(pageTexts) :
        Contains(NormalizeForSearch(pageTexts[i]), NormalizeForSearch(ann.quote))}

\* C3: an annotation with a searchable quote that some page holds in full
\* gets the lowest-numbered such page, whatever page it came with; a prefix
\* match on an earlier page does not decide while a full match exists.
LocatorFullQuoteWins ==
    lpc = "done" =>
        \A k \in 1..Len(annotations) :
            (Searchable(annotations[k]) /\ FullQuotePages(annotations[k]) # {}) =>
                \E i \in FullQuotePages(annotations[k]) :
                    /\ \A j \in FullQuotePages(annotations[k]) : i <= j
                    /\ corrected[k].page = Some(i)

\* textual evidence for placing the quote on a page: the normalized page
\* holds the normalized quote or its first 80, 50, 35 or 25 characters
HasEvidence(quote, pageText) ==
    \/ Contains(NormalizeForSearch(pageText), NormalizeForSearch(quote))
    \/ \E n \in {80, 50, 35, 25} :
           /\ Len(NormalizeForSearch(quote)) >= n
           /\ Contains(NormalizeForSearch(pageText), SubSeq(NormalizeForSearch(quote), 1, n))

\* C4: correct returns as many annotations as it was given; a page that
\* differs from the one passed in is the number of a page with textual
\* evidence for the quote; without evidence on any page, or without pages,
\* the annotation comes back exactly as it was.
LocatorNeedsEvidence ==
    lpc = "done" =>
        /\ Len(corrected) = Len(annotations)
        /\ \A k \in 1..Len(annotations) :
              /\ corrected[k].page # annotations[k].page =>
                    \E i \in 1..Len(pageTexts) :
                        /\ corrected[k].page = Some(i)
                        /\ HasEvidence(annotations[k].quote, pageTexts[i])
              /\ (\A i \in 1..Len(pageTexts) : ~HasEvidence(annotations[k].quote, pageTexts[i]))
                    => corrected[k] = annotations[k]
              /\ corrected[k].quote = annotations[k].quote

\* a wrong page guess was replaced by the page that holds the quote
LocatorMovedPage ==
    /\ lpc = "done"
    /\ \E k \in 1..Len(annotations) :
          /\ annotations[k].page = Some(5)
          /\ corrected[k].page = Some(2)
          /\ HasEvidence(annotations[k].quote, pageTexts[2])

\* a guess without any evidence was kept
LocatorKeptPage ==
    /\ lpc = "done"
    /\ pageTexts # <<>>
    /\ \E k \in 1..Len(annotations) :
          /\ Searchable(annotations[k])
          /\ annotations[k].page = Some(5)
          /\ corrected[k].page = Some(5)

(***************************************************************************)
(* JSON values and json.loads                                              *)
(*                                                                         *)
(* A value is a record [t, v]: t is its type, v its content.  An object    *)
(* is the sequence of its <<key, value>> pairs in insertion order.         *)
(***************************************************************************)
JNull == [t |-> "null", v |-> <<>>]
JBool(b) == [t |-> "bool", v |-> <<b>>]
JInt(digits) == [t |-> "int", v |-> digits]
JFloat(whole, frac) == [t |-> "float", v |-> <<whole, frac>>]
JStr(chars) == [t |-> "str", v |-> chars]
JArr(elems) == [t |-> "arr", v |-> elems]
JObj(pairs) == [t |-> "obj", v |-> pairs]

Quote == "\""
Backslash == "\\"
Digits == {"0", "1", "2", "3", "4", "5", "6", "7", "8", "9"}

\* the character at 1-based position i, "" past the end
At(s, i) == IF i \in 1..Len(s) THEN s[i] ELSE ""

\* dict[key] = val: a known key keeps its place and takes the new value
PutKey(pairs, key, val) ==
    IF \E i \in 1..Len(pairs) : pairs[i][1] = key
    THEN [i \in 1..Len(pairs) |-> IF pairs[i][1] = key THEN <<key, val>> ELSE pairs[i]]
    ELSE Append(pairs, <<key, val>>)

HasKey(obj, key) == \E i \in 1..Len(obj.v) : obj.v[i][1] = key

\* dict.get(key): None when the key is missing
GetKey(obj, key) ==
    IF HasKey(obj, key)
    THEN obj.v[CHOOSE i \in 1..Len(obj.v) : obj.v[i][1] = key][2]
    ELSE JNull

ParseFail == [ok |-> FALSE, val |-> JNull, next |-> 0]
ParseOk(val, next) == [ok |-> TRUE, val |-> val, next |-> next]

RECURSIVE SkipWs(_, _)
SkipWs(s, i) == IF At(s, i) \in Whitespace THEN SkipWs(s, i + 1) ELSE i

\* the character an escape sequence of a JSON string stands for
JsonUnescape(c) ==
    CASE c = "n" -> "\n" [] c = "t" -> "\t" [] c = "r" -> "\r" [] OTHER -> c

\* the body of a string literal from position j to its closing quote
RECURSIVE ScanString(_, _, _)
ScanString(s, j, acc) ==
    IF j > Len(s) THEN ParseFail
    ELSE IF s[j] = Quote THEN ParseOk(JStr(acc), j + 1)
    ELSE IF s[j] = Backslash
         THEN IF At(s, j + 1) \in {Quote, Backslash, "/", "n", "t", "r"}
              THEN ScanString(s, j + 2, Append(acc, JsonUnescape(s[j + 1])))
              ELSE ParseFail
    ELSE IF s[j] \in {"\n", "\t", "\r"} THEN ParseFail
    ELSE ScanString(s, j + 1, Append(acc, s[j]))

RECURSIVE ScanDigits(_, _)
ScanDigits(s, j) == IF At(s, j) \in Digits THEN ScanDigits(s, j + 1) ELSE j

\* float() keeps neither leading zeros nor the zeros that end a fraction
RECURSIVE DropLeadingZeros(_)
DropLeadingZeros(d) == IF Len(d) > 1 /\ d[1] = "0" THEN DropLeadingZeros(Tail(d)) ELSE d

RECURSIVE DropTrailingZeros(_)
DropTrailingZeros(d) ==
    IF d # <<>> /\ d[Len(d)] = "0" THEN DropTrailingZeros(SubSeq(d, 1, Len(d) - 1)) ELSE d

\* a number literal: integer part without leading zeros, optional fraction
ParseNumber(s, i) ==
    LET intEnd == IF At(s, i) = "0" THEN i + 1 ELSE ScanDigits(s, i)
    IN  IF intEnd = i THEN ParseFail
        ELSE IF At(s, intEnd) = "." /\ ScanDigits(s, intEnd + 1) > intEnd + 1
             THEN ParseOk(JFloat(SubSeq(s, i, intEnd - 1),
                                 DropTrailingZeros(
                                     SubSeq(s, intEnd + 1, ScanDigits(s, intEnd + 1) - 1))),
                          ScanDigits(s, intEnd + 1))
             ELSE ParseOk(JInt(SubSeq(s, i, intEnd - 1)), intEnd)

StartsWithAt(s, i, word) == i + Len(word) - 1 <= Len(s) /\ SubSeq(s, i, i + Len(word) - 1) = word

RECURSIVE ParseValue(_, _)
RECURSIVE ParseMembers(_, _, _)
RECURSIVE ParseElements(_, _, _)

\* the members of an object from position j, which must hold a key
ParseMembers(s, j, acc) ==
    IF At(s, j) # Quote THEN ParseFail
    ELSE LET key == ScanString(s, j + 1, <<>>)
         IN  IF ~key.ok \/ At(s, SkipWs(s, key.next)) # ":" THEN ParseFail
             ELSE LET val == ParseValue(s, SkipWs(s, SkipWs(s, key.next) + 1))
                  IN  IF ~val.ok THEN ParseFail
                      ELSE LET m == SkipWs(s, val.next)
                           IN  IF At(s, m) = ","
                               THEN ParseMembers(s, SkipWs(s, m + 1), PutKey(acc, key.val.v, val.val))
                               ELSE IF At(s, m) = "}"
                               THEN ParseOk(JObj(PutKey(acc, key.val.v, val.val)), m + 1)
                               ELSE ParseFail

\* the elements of an array from position j, which must hold a value
ParseElements(s, j, acc) ==
    LET val == ParseValue(s, j)
    IN  IF ~val.ok THEN ParseFail
        ELSE LET m == SkipWs(s, val.next)
             IN  IF At(s, m) = ","
                 THEN ParseElements(s, SkipWs(s, m + 1), Append(acc, val.val))
                 ELSE IF At(s, m) = "]"
                 THEN ParseOk(JArr(Append(acc, val.val)), m + 1)
                 ELSE ParseFail

ParseValue(s, i) ==
    CASE At(s, i) = "{" ->
            IF At(s, SkipWs(s, i + 1)) = "}"
            THEN ParseOk(JObj(<<>>), SkipWs(s, i + 1) + 1)
            ELSE ParseMembers(s, SkipWs(s, i + 1), <<>>)
      [] At(s, i) = "[" ->
            IF At(s, SkipWs(s, i + 1)) = "]"
            THEN ParseOk(JArr(<<>>), SkipWs(s, i + 1) + 1)
            ELSE ParseElements(s, SkipWs(s, i + 1), <<>>)
      [] At(s, i) = Quote -> ScanString(s, i + 1, <<>>)
      [] At(s, i) \in Digits -> ParseNumber(s, i)
      [] StartsWithAt(s, i, <<"t", "r", "u", "e">>) -> ParseOk(JBool(TRUE), i + 4)
      [] StartsWithAt(s, i, <<"f", "a", "l", "s", "e">>) -> ParseOk(JBool(FALSE), i + 5)
      [] StartsWithAt(s, i, <<"n", "u", "l", "l">>) -> ParseOk(JNull, i + 4)
      [] OTHER -> ParseFail

\* json.loads(s): one value, blanks around it, nothing else; ok = FALSE
\* stands for JSONDecodeError
JsonLoads(s) ==
    LET r == ParseValue(s, SkipWs(s, 1))
    IN  IF r.ok /\ SkipWs(s, r.next) = Len(s) + 1 THEN r ELSE ParseFail

\* json.dumps of a string
RECURSIVE EscapeChars(_, _)
EscapeChars(chars, i) ==
    IF i > Len(chars) THEN <<>>
    ELSE (CASE chars[i] = Quote -> <<Backslash, Quote>>
            [] chars[i] = Backslash -> <<Backslash, Backslash>>
            [] chars[i] = "\n" -> <<Backslash, "n">>
            [] OTHER -> <<chars[i]>>) \o EscapeChars(chars, i + 1)

\* json.dumps(val)
RECURSIVE JsonDumps(_)
RECURSIVE DumpPairs(_, _)
RECURSIVE DumpElems(_, _)
DumpPairs(pairs, i) ==
    IF i > Len(pairs) THEN <<>>
    ELSE (IF i > 1 THEN <<",", " ">> ELSE <<>>)
         \o <<Quote>> \o EscapeChars(pairs[i][1], 1) \o <<Quote, ":", " ">>
         \o JsonDumps(pairs[i][2]) \o DumpPairs(pairs, i + 1)
DumpElems(elems, i) ==
    IF i > Len(elems) THEN <<>>
    ELSE (IF i > 1 THEN <<",", " ">> ELSE <<>>) \o JsonDumps(elems[i]) \o DumpElems(elems, i + 1)
JsonDumps(val) ==
    CASE val.t = "null" -> <<"n", "u", "l", "l">>
      [] val.t = "bool" -> IF val.v[1] THEN <<"t", "r", "u", "e">> ELSE <<"f", "a", "l", "s", "e">>
      [] val.t = "int" -> val.v
      [] val.t = "float" -> val.v[1] \o <<".">> \o (IF val.v[2] = <<>> THEN <<"0">> ELSE val.v[2])
      [] val.t = "str" -> <<Quote>> \o EscapeChars(val.v, 1) \o <<Quote>>
      [] val.t = "arr" -> <<"[">> \o DumpElems(val.v, 1) \o <<"]">>
      [] val.t = "obj" -> <<"{">> \o DumpPairs(val.v, 1) \o <<"}">>

(***************************************************************************)
(* ResponseRepairer: _fix_trailing_commas, _parse_json_from_response       *)
(***************************************************************************)
\* the backquote character (a string literal cannot hold it)
Backquote == "BACKQUOTE"
Fence == <<Backquote, Backquote, Backquote>>
JsonFence == Fence \o <<"j", "s", "o", "n">>

\* s.split(sep, 1)[-1]: what follows the first sep, all of s without one
AfterFirst(s, sep) ==
    IF Find(s, sep) < 0 THEN s ELSE SubSeq(s, Find(s, sep) + Len(sep) + 1, Len(s))

\* s.split(sep, 1)[0]: what precedes the first sep, all of s without one
BeforeFirst(s, sep) ==
    IF Find(s, sep) < 0 THEN s ELSE SubSeq(s, 1, Find(s, sep))

\* lines 52-55
StripFence(s) ==
    IF Contains(s, JsonFence) THEN Strip(BeforeFirst(AfterFirst(s, JsonFence), Fence))
    ELSE IF Contains(s, Fence) THEN Strip(BeforeFirst(AfterFirst(s, Fence), Fence))
    ELSE s

\* lines 58-66: braces opened less braces closed from position i to j
BraceDepth(s, i, j) ==
    Cardinality({k \in i..j : s[k] = "{"}) - Cardinality({k \in i..j : s[k] = "}"})

\* lines 58-66: the 1-based position of the first closing brace that brings
\* the depth counted from position i back to 0, or 0 when the text ends first
MatchBrace(s, i) ==
    IF \E j \in i..Len(s) : s[j] = "}" /\ BraceDepth(s, i, j) = 0
    THEN CHOOSE j \in i..Len(s) :
             /\ s[j] = "}" /\ BraceDepth(s, i, j) = 0
             /\ \A k \in i..(j - 1) : ~(s[k] = "}" /\ BraceDepth(s, i, k) = 0)
    ELSE 0

\* lines 56-66
BraceCut(s) ==
    IF Find(s, <<"{">>) >= 0 /\ MatchBrace(s, Find(s, <<"{">>) + 1) > 0
    THEN SubSeq(s, Find(s, <<"{">>) + 1, MatchBrace(s, Find(s, <<"{">>) + 1))
    ELSE s

\* position j of s lies in a match of ,\s*X before its closing character X
InCommaMatch(s, j, closer) ==
    \/ s[j] = "," /\ At(s, SkipWs(s, j + 1)) = closer
    \/ /\ s[j] \in Whitespace
       /\ At(s, SkipWs(s, j)) = closer
       /\ \E i \in 1..(j - 1) : s[i] = "," /\ \A k \in (i + 1)..j : s[k] \in Whitespace

\* re.sub(r",\s*X", "X", s) for one closing character X
DropCommaBefore(s, closer) ==
    LET Kept(p) == ~InCommaMatch(s, p[1], closer)
        kept    == SelectSeq([j \in 1..Len(s) |-> <<j, s[j]>>], Kept)
    IN  SubSeq([k \in 1..Len(kept) |-> kept[k][2]], 1, Len(kept))

\* _fix_trailing_commas
FixTrailingCommas(s) == DropCommaBefore(DropCommaBefore(s, "}"), "]")

\* "key"\s*:\s* matched at 1-based position i: the position after it, else 0
AfterKeyAt(s, i, key) ==
    IF StartsWithAt(s, i, <<Quote>> \o key \o <<Quote>>)
       /\ At(s, SkipWs(s, i + Len(key) + 2)) = ":"
    THEN SkipWs(s, SkipWs(s, i + Len(key) + 2) + 1)
    ELSE 0

ScoreKey == <<"s", "c", "o", "r", "e">>
ReasoningKey == <<"r", "e", "a", "s", "o", "n", "i", "n", "g">>

\* line 79: the positions where the score pattern matches
ScoreMatches(s) ==
    {i \in 1..Len(s) : AfterKeyAt(s, i, ScoreKey) > 0
                        /\ At(s, AfterKeyAt(s, i, ScoreKey)) \in Digits}

\* float(m.group(1)) for the group \d+(?:\.\d+)? that begins at position j
FloatAt(s, j) ==
    LET intEnd == ScanDigits(s, j)
    IN  IF At(s, intEnd) = "." /\ ScanDigits(s, intEnd + 1) > intEnd + 1
        THEN JFloat(DropLeadingZeros(SubSeq(s, j, intEnd - 1)),
                    DropTrailingZeros(SubSeq(s, intEnd + 1, ScanDigits(s, intEnd + 1) - 1)))
        ELSE JFloat(DropLeadingZeros(SubSeq(s, j, intEnd - 1)), <<>>)

\* ((?:[^"\\]|\\.)*)" from position j: the position of the closing quote,
\* 0 when the text ends first or a backslash has nothing it can escape
RECURSIVE ReasoningEnd(_, _)
ReasoningEnd(s, j) ==
    IF j > Len(s) THEN 0
    ELSE IF s[j] = Quote THEN j
    ELSE IF s[j] = Backslash
         THEN IF j + 1 > Len(s) \/ s[j + 1] = "\n" THEN 0 ELSE ReasoningEnd(s, j + 2)
    ELSE ReasoningEnd(s, j + 1)

\* line 85: the positions where the reasoning pattern matches
ReasoningMatches(s) ==
    {i \in 1..Len(s) : /\ AfterKeyAt(s, i, ReasoningKey) > 0
                        /\ At(s, AfterKeyAt(s, i, ReasoningKey)) = Quote
                        /\ ReasoningEnd(s, AfterKeyAt(s, i, ReasoningKey) + 1) > 0}

LeastOf(S) == CHOOSE i \in S : \A j \in S : i <= j

HexDigits == Digits \cup {"a", "b", "c", "d", "e", "f", "A", "B", "C", "D", "E", "F"}

\* bytes.decode("unicode_escape") cannot decode \x or \u short of hex digits
RECURSIVE EscapeUndecodable(_, _)
EscapeUndecodable(g, i) ==
    IF i > Len(g) THEN FALSE
    ELSE IF g[i] = Backslash
         THEN \/ At(g, i + 1) = "x" /\ \E k \in 2..3 : At(g, i + k) \notin HexDigits
              \/ At(g, i + 1) = "u" /\ \E k \in 2..5 : At(g, i + k) \notin HexDigits
              \/ EscapeUndecodable(g, i + 2)
         ELSE EscapeUndecodable(g, i + 1)

\* the character \xNN stands for, for the codes the documents use
HexChar(h1, h2) ==
    CASE <<h1, h2>> = <<"7", "d">> -> "}" [] <<h1, h2>> = <<"7", "b">> -> "{"
      [] <<h1, h2>> = <<"2", "2">> -> Quote [] <<h1, h2>> = <<"4", "1">> -> "A"
      [] OTHER -> "?"

\* m.group(1).encode().decode("unicode_escape") on a decodable group
RECURSIVE UnicodeEscapeDecode(_, _)
UnicodeEscapeDecode(g, i) ==
    IF i > Len(g) THEN <<>>
    ELSE IF g[i] = Backslash /\ i < Len(g)
         THEN CASE g[i + 1] \in {"n", "t", "r"} ->
                      <<JsonUnescape(g[i + 1])>> \o UnicodeEscapeDecode(g, i + 2)
                [] g[i + 1] \in {Quote, Backslash} ->
                      <<g[i + 1]>> \o UnicodeEscapeDecode(g, i + 2)
                [] g[i + 1] = "x" ->
                      <<HexChar(g[i + 2], g[i + 3])>> \o UnicodeEscapeDecode(g, i + 4)
                [] OTHER -> <<Backslash, g[i + 1]>> \o UnicodeEscapeDecode(g, i + 2)
         ELSE <<g[i]>> \o UnicodeEscapeDecode(g, i + 1)

Returned(val) == [kind |-> "returned", val |-> val]
Raised(exc) == [kind |-> "raised", val |-> JStr(exc)]
JSONDecodeError == <<"JSONDecodeError">>
UnicodeDecodeError == <<"UnicodeDecodeError">>

ScrapedObject(score, reasoning) ==
    JObj(<<  <<ScoreKey, score>>,
             <<ReasoningKey, JStr(reasoning)>>,
             <<<<"r", "e", "q", "u", "i", "r", "e", "m", "e", "n", "t", "s", "_",
                 "b", "r", "e", "a", "k", "d", "o", "w", "n">>, JArr(<<>>)>>,
             <<<<"a", "n", "n", "o", "t", "a", "t", "i", "o", "n", "s">>, JArr(<<>>)>> >>)

\* lines 77-90: the last resort on the cut text
Scrape(s) ==
    LET score == IF ScoreMatches(s) = {} THEN JNull
                 ELSE FloatAt(s, AfterKeyAt(s, LeastOf(ScoreMatches(s)), ScoreKey))
        from  == IF ReasoningMatches(s) = {} THEN 0
                 ELSE AfterKeyAt(s, LeastOf(ReasoningMatches(s)), ReasoningKey) + 1
        group == IF from = 0 THEN <<>> ELSE SubSeq(s, from, ReasoningEnd(s, from) - 1)
    IN  IF EscapeUndecodable(group, 1) THEN Raised(UnicodeDecodeError)
        ELSE IF score # JNull \/ UnicodeEscapeDecode(group, 1) # <<>>
        THEN Returned(ScrapedObject(score, UnicodeEscapeDecode(group, 1)))
        ELSE Raised(JSONDecodeError)

\* lines 51-66: what the two json.loads calls and the scraper are given
CutText(raw) == BraceCut(StripFence(Strip(raw)))

\* lines 68-76: the strict parse, else the parse of the text without
\* trailing commas, else what the handler of the second failure does
FirstLoaded(strict, fixed, otherwise) ==
    IF strict.ok THEN Returned(strict.val)
    ELSE IF fixed.ok THEN Returned(fixed.val)
    ELSE otherwise

\* lines 67-90 on the cut text
ParseCut(cut) == FirstLoaded(JsonLoads(cut), JsonLoads(FixTrailingCommas(cut)), Scrape(cut))

\* _parse_json_from_response
ParseJsonFromResponse(raw) == ParseCut(CutText(raw))

\* the objects a model may answer with
ObjA == JObj(<< <<ScoreKey, JInt(<<"7", "2">>)>>, <<ReasoningKey, JStr(<<"o", "k">>)>> >>)
ObjB == JObj(<< <<ReasoningKey, JStr(<<"a", "}">>)>>, <<ScoreKey, JInt(<<"5">>)>> >>)
ObjC == JObj(<< <<<<"k">>, JStr(<<"{", "b", "}">>)>> >>)
ObjD == JObj(<< <<<<"k">>, JObj(<< <<<<"b">>, JArr(<<JInt(<<"1">>), JBool(TRUE), JNull>>)>> >>)>> >>)
ObjE == JObj(<< <<<<"k">>, JStr(<<"{">>)>> >>)
ObjF == JObj(<< <<<<"k">>, JStr(<<Quote, ",", "}", Backslash>>)>>, <<ScoreKey, JFloat(<<"8", "5">>, <<"5">>)>> >>)
ObjG == JObj(<<>>)
ObjH == JObj(<< <<<<"k">>, JStr(Fence)>> >>)

ModelObjects == {ObjA, ObjB, ObjC, ObjD, ObjE, ObjF, ObjG, ObjH}

\* how the model may wrap its object: bare, in a json fence, in a plain fence
Wrappings == {"bare", "json", "plain"}
Wrap(s, w) ==
    CASE w = "json" -> JsonFence \o <<"\n">> \o s \o <<"\n">> \o Fence
      [] w = "plain" -> Fence \o <<"\n">> \o s \o <<"\n">> \o Fence
      [] OTHER -> s

\* what the model may add after its object
TrailingProse == {<<>>, <<"\n", "D", "o", "n", "e", ".">>, <<" ", "s", "e", "e", " ", "{", "x", "}">>}

\* other output: a list, a number, broken JSON with and without fragments
OtherOutputs ==
    {<<>>,
     <<"[", "1", ",", " ", "2", "]">>,
     <<"5">>,
     <<"s", "o", "r", "r", "y">>,
     <<"{", Quote, "s", "c", "o", "r", "e", Quote, ":", " ", "7", "2", ",", "}">>,
     <<Quote, "s", "c", "o", "r", "e", Quote, ":", " ", "7", "2">>,
     <<"{", Quote, "r", "e", "a", "s", "o", "n", "i", "n", "g", Quote, ":", Quote, "a", Backslash, "x", Quote>>,
     <<"{", Quote, "r", "e", "a", "s", "o", "n", "i", "n", "g", Quote, ":", Quote, "a", Backslash, "n", "b", Quote, ",", " ", "x">>,
     <<"{", Quote, "k", Quote, ":", " ", "[", "1", ",", "]", "}">>}

\* an object whose string value holds a comma before a closing bracket
ObjI == JObj(<< <<<<"k">>, JStr(<<"x", ",", " ", "]">>)>> >>)

\* objects that get a trailing comma; their strings hold no quote
CommaObjects == {ObjA, ObjD, ObjI}

\* position i of s lies outside the string literals of s
OutsideStrings(s, i) == Cardinality({k \in 1..(i - 1) : s[k] = Quote}) % 2 = 0

\* the closing braces and brackets of the dumped object
CommaSpots(o) ==
    {i \in 1..Len(JsonDumps(o)) :
        JsonDumps(o)[i] \in {"}", "]"} /\ OutsideStrings(JsonDumps(o), i)}

\* s with a comma put in before position i
WithComma(s, i) == SubSeq(s, 1, i - 1) \o <<",">> \o SubSeq(s, i, Len(s))

CommaInputs ==
    UNION {{WithComma(JsonDumps(o), i) : i \in CommaSpots(o)} : o \in CommaObjects}

\* prose without a parsable object that holds a score: the text, the score
\* written in it, the reasoning string written in it
BareScore ==
    [text |-> <<Quote, "s", "c", "o", "r", "e", Quote, ":", " ", "7", "2">>,
     score |-> JFloat(<<"7", "2">>, <<>>), reasoning |-> <<>>]
ScoreAndReasoning ==
    [text |-> <<"S", "o", "r", "r", "y", ".", " ", Quote, "s", "c", "o", "r", "e", Quote, ":",
              " ", "7", "2", ".", "5", ",", " ", Quote, "r", "e", "a", "s", "o", "n", "i", "n",
              "g", Quote, ":", " ", Quote, "o", "k", Quote>>,
     score |-> JFloat(<<"7", "2">>, <<"5">>), reasoning |-> <<"o", "k">>]
CutOffReply ==
    [text |-> <<"{", Quote, "s", "c", "o", "r", "e", Quote, ":", " ", "7", "2", ",", " ", Quote,
              "r", "e", "a", "s", "o", "n", "i", "n", "g", Quote, ":", " ", Quote, "a", "b",
              "c">>,
     score |-> JFloat(<<"7", "2">>, <<>>), reasoning |-> <<>>]
ProseWithBraces ==
    [text |-> <<"s", "e", "e", " ", "{", "x", "}", " ", Quote, "s", "c", "o", "r", "e", Quote,
              ":", " ", "7", "2">>,
     score |-> JFloat(<<"7", "2">>, <<>>), reasoning |-> <<>>]

ScoreProse == {BareScore, ScoreAndReasoning, CutOffReply, ProseWithBraces}

RepairInputs ==
    {Wrap(JsonDumps(o), w) \o p : o \in ModelObjects, w \in Wrappings, p \in TrailingProse}
    \cup OtherOutputs
    \cup CommaInputs
    \cup {p.text : p \in ScoreProse}

RepairInit ==
    /\ rawText \in RepairInputs
    /\ repaired = <<>>
    /\ rpc = "call"
    /\ ChunkIdle
    /\ LocatorIdle
    /\ EvalIdle
    /\ VendorIdle
    /\ WorkflowIdle

Repair ==
    /\ rpc = "call"
    /\ repaired' = ParseJsonFromResponse(rawText)
    /\ rpc' = "done"
    /\ UNCHANGED rawText
    /\ UNCHANGED notRepair

RepairNext == Repair

SpecRepair == RepairInit /\ [][RepairNext]_vars

\* C2: when the raw output is one well-formed JSON object, bare or in a
\* fenced block, with or without prose after it, repair returns that object.
RepairReturnsTheObject ==
    rpc = "done" =>
        \A o \in ModelObjects, w \in Wrappings, p \in TrailingProse :
            rawText = Wrap(JsonDumps(o), w) \o p => repaired = Returned(o)

\* the cut text holds a "reasoning" string that is not empty
HasReasoning(s) ==
    \E i \in ReasoningMatches(s) :
        ReasoningEnd(s, AfterKeyAt(s, i, ReasoningKey) + 1) > AfterKeyAt(s, i, ReasoningKey) + 1

\* no usable fragment: neither parse succeeds, no score, no reasoning
NoFragment(strict, fixed, s) ==
    /\ ~strict.ok
    /\ ~fixed.ok
    /\ ScoreMatches(s) = {}
    /\ ~HasReasoning(s)

Unusable(cut) == NoFragment(JsonLoads(cut), JsonLoads(FixTrailingCommas(cut)), cut)

\* C11: repair raises its unparsable-response error exactly when the cut
\* text has no usable fragment, and whatever it returns is an object.
RepairRaisesOnlyWithoutFragment ==
    rpc = "done" =>
        /\ repaired = Raised(JSONDecodeError) <=> Unusable(CutText(rawText))
        /\ repaired.kind = "returned" => repaired.val.t = "obj"

\* C12: a well-formed object with one trailing comma added before a closing
\* brace or bracket is repaired to the object itself.
RepairDropsTrailingComma ==
    rpc = "done" =>
        \A o \in CommaObjects :
            \A i \in CommaSpots(o) :
                rawText = WithComma(JsonDumps(o), i) => repaired = Returned(o)

\* C13: on prose without a parsable object that holds a "score": N field,
\* repair returns the object with score N as a float, the reasoning string
\* of the prose or the empty one, and empty breakdown and annotations.
RepairScrapesScore ==
    rpc = "done" =>
        \A p \in ScoreProse :
            rawText = p.text => repaired = Returned(ScrapedObject(p.score, p.reasoning))

(***************************************************************************)
(* Keys and fixed results                                                  *)
(***************************************************************************)
K_evaluation_source == <<"e", "v", "a", "l", "u", "a", "t", "i", "o", "n", "_", "s", "o", "u",
                         "r", "c", "e">>
K_requirements_breakdown == <<"r", "e", "q", "u", "i", "r", "e", "m", "e", "n", "t", "s", "_",
                              "b", "r", "e", "a", "k", "d", "o", "w", "n">>
K_annotations == <<"a", "n", "n", "o", "t", "a", "t", "i", "o", "n", "s">>
K_quote == <<"q", "u", "o", "t", "e">>
K_reason == <<"r", "e", "a", "s", "o", "n">>
K_page == <<"p", "a", "g", "e">>
K_requirement == <<"r", "e", "q", "u", "i", "r", "e", "m", "e", "n", "t">>
K_compliant == <<"c", "o", "m", "p", "l", "i", "a", "n", "t">>
K_note == <<"n", "o", "t", "e">>
K_vendor == <<"v", "e", "n", "d", "o", "r">>
K_name == <<"n", "a", "m", "e">>
K_address == <<"a", "d", "d", "r", "e", "s", "s">>
K_website == <<"w", "e", "b", "s", "i", "t", "e">>
K_domain == <<"d", "o", "m", "a", "i", "n">>
K_representatives == <<"r", "e", "p", "r", "e", "s", "e", "n", "t", "a", "t", "i", "v", "e",
                       "s">>
K_email == <<"e", "m", "a", "i", "l">>
K_phone == <<"p", "h", "o", "n", "e">>
K_designation == <<"d", "e", "s", "i", "g", "n", "a", "t", "i", "o", "n">>
K_bid_summary == <<"b", "i", "d", "_", "s", "u", "m", "m", "a", "r", "y">>
K_score == ScoreKey
K_reasoning == ReasoningKey

\* _mock_evaluate_bid, lines 21-27
MockBreakdown ==
    JArr(<<
        JObj(<< <<K_requirement, JStr(<<"T", "e", "c", "h", "n", "i", "c", "a", "l",
                                                " ", "c", "a", "p", "a", "b", "i", "l", "i",
                                                "t", "y", " ", "a", "n", "d", " ", "e", "x",
                                                "p", "e", "r", "i", "e", "n", "c", "e">>)>>,
                <<K_compliant, JBool(TRUE)>>,
                <<K_note, JStr(<<"B", "i", "d", " ", "d", "e", "m", "o", "n", "s", "t",
                                         "r", "a", "t", "e", "s", " ", "r", "e", "l", "e", "v",
                                         "a", "n", "t", " ", "e", "x", "p", "e", "r", "i", "e",
                                         "n", "c", "e", ".">>)>> >>),
        JObj(<< <<K_requirement, JStr(<<"C", "e", "r", "t", "i", "f", "i", "c", "a",
                                                "t", "i", "o", "n", "s", " ", "(", "e", ".",
                                                "g", ".", " ", "I", "S", "O", ",", " ", "i",
                                                "n", "d", "u", "s", "t", "r", "y", ")">>)>>,
                <<K_compliant, JBool(FALSE)>>,
                <<K_note, JStr(<<"I", "S", "O", " ", "9", "0", "0", "1", " ", "c", "l",
                                         "a", "i", "m", "e", "d", ";", " ", "n", "e", "e", "d",
                                         "s", " ", "v", "e", "r", "i", "f", "i", "c", "a", "t",
                                         "i", "o", "n", ".">>)>> >>),
        JObj(<< <<K_requirement, JStr(<<"B", "u", "d", "g", "e", "t", " ", "a", "n",
                                                "d", " ", "p", "r", "i", "c", "i", "n", "g">>)>>,
                <<K_compliant, JBool(TRUE)>>,
                <<K_note, JStr(<<"W", "i", "t", "h", "i", "n", " ", "s", "t", "a", "t",
                                         "e", "d", " ", "r", "a", "n", "g", "e", ".">>)>> >>),
        JObj(<< <<K_requirement, JStr(<<"D", "e", "l", "i", "v", "e", "r", "y", " ",
                                                "t", "i", "m", "e", "l", "i", "n", "e">>)>>,
                <<K_compliant, JBool(TRUE)>>,
                <<K_note, JStr(<<"1", "2", " ", "w", "e", "e", "k", "s", " ", "p", "r",
                                         "o", "p", "o", "s", "e", "d", ".">>)>> >>),
        JObj(<< <<K_requirement, JStr(<<"S", "u", "p", "p", "o", "r", "t", " ", "a",
                                                "n", "d", " ", "w", "a", "r", "r", "a", "n",
                                                "t", "y">>)>>,
                <<K_compliant, JBool(TRUE)>>,
                <<K_note, JStr(<<"S", "t", "a", "n", "d", "a", "r", "d", " ", "t", "e",
                                         "r", "m", "s", " ", "o", "f", "f", "e", "r", "e", "d",
                                         ".">>)>> >>) >>)

\* _mock_evaluate_bid, lines 33-38
MockAnnotations ==
    JArr(<<
        JObj(<< <<K_quote, JStr(<<"I", "S", "O", " ", "9", "0", "0", "1", " ", "c",
                                          "e", "r", "t", "i", "f", "i", "c", "a", "t", "i",
                                          "o", "n", " ", "t", "o", " ", "b", "e", " ", "c",
                                          "o", "n", "f", "i", "r", "m", "e", "d">>)>>,
                <<K_reason, JStr(<<"C", "l", "a", "i", "m", "e", "d", " ", "c", "e",
                                           "r", "t", "i", "f", "i", "c", "a", "t", "i", "o",
                                           "n", " ", "s", "h", "o", "u", "l", "d", " ", "b",
                                           "e", " ", "v", "e", "r", "i", "f", "i", "e", "d",
                                           " ", "w", "i", "t", "h", " ", "t", "h", "e", " ",
                                           "v", "e", "n", "d", "o", "r", " ", "o", "r", " ",
                                           "i", "s", "s", "u", "i", "n", "g", " ", "b", "o",
                                           "d", "y", ".">>)>>,
                <<K_page, JInt(<<"1">>)>> >>),
        JObj(<< <<K_quote, JStr(<<"D", "e", "l", "i", "v", "e", "r", "y", " ", "t",
                                          "i", "m", "e", "l", "i", "n", "e", " ", "1", "2",
                                          " ", "w", "e", "e", "k", "s", " ", "f", "r", "o",
                                          "m", " ", "c", "o", "n", "t", "r", "a", "c", "t">>)>>,
                <<K_reason, JStr(<<"V", "e", "r", "i", "f", "y", " ", "f", "e", "a",
                                           "s", "i", "b", "i", "l", "i", "t", "y", " ", "a",
                                           "n", "d", " ", "r", "e", "s", "o", "u", "r", "c",
                                           "e", " ", "c", "o", "m", "m", "i", "t", "m", "e",
                                           "n", "t", ".">>)>>,
                <<K_page, JInt(<<"2">>)>> >>),
        JObj(<< <<K_quote, JStr(<<"T", "e", "a", "m", " ", "c", "o", "m", "p", "r",
                                          "i", "s", "e", "s", " ", "5", " ", "F", "T", "E",
                                          " ", "w", "i", "t", "h", " ", "P", "M", "P", " ",
                                          "c", "e", "r", "t", "i", "f", "i", "c", "a", "t",
                                          "i", "o", "n">>)>>,
                <<K_reason, JStr(<<"V", "e", "r", "i", "f", "y", " ", "t", "e", "a",
                                           "m", " ", "a", "v", "a", "i", "l", "a", "b", "i",
                                           "l", "i", "t", "y", " ", "a", "n", "d", " ", "c",
                                           "r", "e", "d", "e", "n", "t", "i", "a", "l", "s",
                                           ".">>)>>,
                <<K_page, JInt(<<"1">>)>> >>),
        JObj(<< <<K_quote, JStr(<<"P", "r", "i", "c", "i", "n", "g", " ", "v", "a",
                                          "l", "i", "d", " ", "f", "o", "r", " ", "9", "0",
                                          " ", "d", "a", "y", "s">>)>>,
                <<K_reason, JStr(<<"C", "o", "n", "f", "i", "r", "m", " ", "v", "a",
                                           "l", "i", "d", "i", "t", "y", " ", "p", "e", "r",
                                           "i", "o", "d", " ", "w", "i", "t", "h", " ", "v",
                                           "e", "n", "d", "o", "r", ".">>)>>,
                <<K_page, JInt(<<"2">>)>> >>) >>)

\* _mock_evaluate_bid, lines 28-39
MockEvaluation ==
    JObj(<< <<K_score, JFloat(<<"8", "5">>, <<"5">>)>>,
            <<K_reasoning,
              JStr(<<"T", "h", "e", " ", "b", "i", "d", " ", "m", "e", "e", "t", "s", " ", "m",
                     "o", "s", "t", " ", "r", "e", "q", "u", "i", "r", "e", "m", "e", "n", "t",
                     "s", " ", "b", "u", "t", " ", "i", "s", " ", "m", "i", "s", "s", "i", "n",
                     "g", " ", "t", "h", "e", " ", "s", "p", "e", "c", "i", "f", "i", "c", " ",
                     "I", "S", "O", " ", "c", "e", "r", "t", "i", "f", "i", "c", "a", "t", "i",
                     "o", "n", " ", "d", "e", "t", "a", "i", "l", "s", " ", "m", "e", "n", "t",
                     "i", "o", "n", "e", "d", " ", "i", "n", " ", "t", "h", "e", " ", "R", "F",
                     "P", ".", " ", "G", "o", "o", "d", " ", "b", "u", "d", "g", "e", "t", " ",
                     "a", "l", "i", "g", "n", "m", "e", "n", "t", ".">>)>>,
            <<K_evaluation_source, JStr(<<"m", "o", "c", "k">>)>>,
            <<K_requirements_breakdown, MockBreakdown>>,
            <<K_annotations, MockAnnotations>> >>)

\* _mock_extract_vendor
MockExtraction(bid_text) ==
    JObj(<< <<K_vendor, JObj(<< <<K_name, JStr(<<"E", "x", "t", "r", "a", "c", "t", "e", "d",
                                               " ", "V", "e", "n", "d", "o", "r", " ", "(",
                                               "M", "o", "c", "k", ")">>)>>,
                                <<K_address, JNull>>,
                                <<K_website, JNull>>,
                                <<K_domain, JNull>> >>)>>,
            <<K_representatives,
              JArr(<< JObj(<< <<K_name, JStr(<<"C", "o", "n", "t", "a", "c", "t", " ", "P", "e",
                                             "r", "s", "o", "n">>)>>,
                              <<K_email, JNull>>,
                              <<K_phone, JNull>>,
                              <<K_designation, JStr(<<"R", "e", "p", "r", "e", "s", "e", "n",
                                                    "t", "a", "t", "i", "v", "e">>)>> >>) >>)>>,
            <<K_bid_summary,
              IF bid_text # <<>>
              THEN JStr(<<"B", "i", "d", " ", "d", "o", "c", "u", "m", "e", "n", "t", " ", "s",
                          "u", "b", "m", "i", "t", "t", "e", "d", " ", "f", "o", "r", " ", "e",
                          "v", "a", "l", "u", "a", "t", "i", "o", "n", ".", " ", "D", "e", "t",
                          "a", "i", "l", "s", " ", "a", "v", "a", "i", "l", "a", "b", "l", "e",
                          " ", "i", "n", " ", "f", "u", "l", "l", " ", "t", "e", "x", "t", ".">>)
              ELSE JNull>> >>)

(***************************************************************************)
(* Python conversions used on the parsed reply                             *)
(***************************************************************************)
TypeError == <<"TypeError">>
ValueError == <<"ValueError">>
AttributeError == <<"AttributeError">>

Apostrophe == "'"

DigitValue(c) ==
    CASE c = "0" -> 0 [] c = "1" -> 1 [] c = "2" -> 2 [] c = "3" -> 3 [] c = "4" -> 4
      [] c = "5" -> 5 [] c = "6" -> 6 [] c = "7" -> 7 [] c = "8" -> 8 [] c = "9" -> 9

\* the number a digit string stands for
RECURSIVE NatOf(_)
NatOf(d) == IF d = <<>> THEN 0 ELSE 10 * NatOf(SubSeq(d, 1, Len(d) - 1)) + DigitValue(d[Len(d)])

\* bool(val)
Truthy(val) ==
    CASE val.t = "null" -> FALSE
      [] val.t = "bool" -> val.v[1]
      [] val.t = "int" -> NatOf(val.v) # 0
      [] val.t = "float" -> NatOf(val.v[1]) # 0 \/ val.v[2] # <<>>
      [] OTHER -> val.v # <<>>

\* repr of a string: single quotes, double ones when only an apostrophe is inside
RECURSIVE ReprChars(_, _, _)
ReprChars(chars, i, q) ==
    IF i > Len(chars) THEN <<>>
    ELSE (CASE chars[i] = q -> <<Backslash, q>>
            [] chars[i] = Backslash -> <<Backslash, Backslash>>
            [] chars[i] = "\n" -> <<Backslash, "n">>
            [] chars[i] = "\t" -> <<Backslash, "t">>
            [] chars[i] = "\r" -> <<Backslash, "r">>
            [] OTHER -> <<chars[i]>>) \o ReprChars(chars, i + 1, q)

ReprStr(chars) ==
    IF Contains(chars, <<Apostrophe>>) /\ ~Contains(chars, <<Quote>>)
    THEN <<Quote>> \o ReprChars(chars, 1, Quote) \o <<Quote>>
    ELSE <<Apostrophe>> \o ReprChars(chars, 1, Apostrophe) \o <<Apostrophe>>

\* repr(val)
RECURSIVE PyRepr(_)
RECURSIVE ReprPairs(_, _)
RECURSIVE ReprElems(_, _)
ReprPairs(pairs, i) ==
    IF i > Len(pairs) THEN <<>>
    ELSE (IF i > 1 THEN <<",", " ">> ELSE <<>>)
         \o ReprStr(pairs[i][1]) \o <<":", " ">> \o PyRepr(pairs[i][2]) \o ReprPairs(pairs, i + 1)
ReprElems(elems, i) ==
    IF i > Len(elems) THEN <<>>
    ELSE (IF i > 1 THEN <<",", " ">> ELSE <<>>) \o PyRepr(elems[i]) \o ReprElems(elems, i + 1)
PyRepr(val) ==
    CASE val.t = "null" -> <<"N", "o", "n", "e">>
      [] val.t = "bool" -> IF val.v[1] THEN <<"T", "r", "u", "e">> ELSE <<"F", "a", "l", "s", "e">>
      [] val.t = "int" -> val.v
      [] val.t = "float" -> val.v[1] \o <<".">> \o (IF val.v[2] = <<>> THEN <<"0">> ELSE val.v[2])
      [] val.t = "str" -> ReprStr(val.v)
      [] val.t = "arr" -> <<"[">> \o ReprElems(val.v, 1) \o <<"]">>
      [] val.t = "obj" -> <<"{">> \o ReprPairs(val.v, 1) \o <<"}">>

\* str(val)
PyStr(val) == IF val.t = "str" THEN val.v ELSE PyRepr(val)

\* the digits of an int() literal: underscores only between digits
IntLiteralOk(body) ==
    /\ body # <<>>
    /\ \A i \in 1..Len(body) : body[i] \in Digits \cup {"_"}
    /\ body[1] # "_"
    /\ body[Len(body)] # "_"
    /\ \A i \in 1..(Len(body) - 1) : ~(body[i] = "_" /\ body[i + 1] = "_")

RECURSIVE DropUnderscores(_)
DropUnderscores(body) ==
    IF body = <<>> THEN <<>>
    ELSE (IF Head(body) = "_" THEN <<>> ELSE <<Head(body)>>) \o DropUnderscores(Tail(body))

\* int(s) of a string: blanks around, a sign, digits; the outcome is
\* [ok, neg, digits], ok = FALSE standing for ValueError
IntOfStr(s) ==
    LET t    == Strip(s)
        sign == IF t # <<>> /\ t[1] \in {"+", "-"} THEN <<t[1]>> ELSE <<>>
        body == SubSeq(t, Len(sign) + 1, Len(t))
    IN  IF IntLiteralOk(body)
        THEN [ok |-> TRUE, neg |-> sign = <<"-">>,
              digits |-> DropLeadingZeros(DropUnderscores(body))]
        ELSE [ok |-> FALSE, neg |-> FALSE, digits |-> <<>>]

(***************************************************************************)
(* EvaluationOrchestrator: _ollama_evaluate_bid, _bid_text_for_eval,       *)
(* evaluate_bid, evaluate_bid_with_context                                 *)
(***************************************************************************)
MAX_TEXT_LEN == 6000
EXCERPT_LEN == 1200
NOTES_LEN == 2000
MAX_ANNOTATIONS == 15

ExcerptMarker == <<"\n", "\n", "[", "E", "x", "c", "e", "r", "p", "t", "]", "\n">>
Ollama == <<"o", "l", "l", "a", "m", "a">>
Excerpt == <<"E", "x", "c", "e", "r", "p", "t">>
NeedsReview == <<"N", "e", "e", "d", "s", " ", "r", "e", "v", "i", "e", "w">>

\* a.get(key, ""): the stored value, the empty string without the key
GetOrEmpty(a, key) == IF HasKey(a, key) THEN GetKey(a, key) ELSE JStr(<<>>)

\* text or fallback
OrElse(chars, fallback) == IF chars # <<>> THEN JStr(chars) ELSE JStr(fallback)

\* str(a.get(key, "")).strip() or fallback
TextField(a, key, fallback) == OrElse(Strip(PyStr(GetOrEmpty(a, key))), fallback)

\* line 140-141 for a string: int(p) raises ValueError, or gives the page
\* when it is >= 1
PageOfInt(n) ==
    IF ~n.ok THEN Raised(ValueError)
    ELSE IF ~n.neg /\ NatOf(n.digits) >= 1 THEN Returned(<< <<K_page, JInt(n.digits)>> >>)
    ELSE Returned(<<>>)

\* lines 137-141: the page _norm_ann keeps, as the pairs to add; a bool is
\* an int in Python, so True passes the first test and is kept as it is
PageField(p) ==
    CASE p.t = "bool" -> IF p.v[1] THEN Returned(<< <<K_page, p>> >>) ELSE Returned(<<>>)
      [] p.t = "int" -> IF NatOf(p.v) >= 1 THEN Returned(<< <<K_page, p>> >>) ELSE Returned(<<>>)
      [] p.t = "float" ->
            IF NatOf(p.v[1]) >= 1 THEN Returned(<< <<K_page, JInt(p.v[1])>> >>) ELSE Returned(<<>>)
      [] p.t = "str" -> PageOfInt(IntOfStr(p.v))
      [] OTHER -> Returned(<<>>)

\* line 136, then the page
WithPage(a, page) ==
    IF page.kind = "raised" THEN page
    ELSE Returned(JObj(<< <<K_quote, TextField(a, K_quote, Excerpt)>>,
                          <<K_reason, TextField(a, K_reason, NeedsReview)>> >>
                       \o page.val))

\* _norm_ann
NormAnn(a) == WithPage(a, PageField(GetKey(a, K_page)))

IsDict(val) == val.t = "obj"

\* the list of the outcomes, or the first exception among them
Collected(outs) ==
    IF \E i \in 1..Len(outs) : outs[i].kind = "raised"
    THEN outs[CHOOSE i \in 1..Len(outs) :
                  /\ outs[i].kind = "raised"
                  /\ \A j \in 1..(i - 1) : outs[j].kind = "returned"]
    ELSE Returned(JArr(SubSeq([i \in 1..Len(outs) |-> outs[i].val], 1, Len(outs))))

\* [_norm_ann(a) for a in dicts]
EachNormed(dicts) == Collected([i \in 1..Len(dicts) |-> NormAnn(dicts[i])])

\* line 143: [_norm_ann(a) for a in anns if isinstance(a, dict)]
NormAnns(anns) == EachNormed(SelectSeq(anns, IsDict))

\* out[key] if it is a list, else []
ListOrEmpty(out, key) ==
    IF HasKey(out, key) /\ GetKey(out, key).t = "arr" THEN GetKey(out, key) ELSE JArr(<<>>)

\* lines 129-144: the three keys written into the parsed object
WithKeys(out, anns) ==
    IF anns.kind = "raised" THEN anns
    ELSE Returned(JObj(PutKey(PutKey(PutKey(out.v, K_evaluation_source, JStr(Ollama)),
                                     K_requirements_breakdown,
                                     ListOrEmpty(out, K_requirements_breakdown)),
                              K_annotations, anns.val)))

\* lines 128-144 on the outcome of _parse_json_from_response: item
\* assignment on a list, a number, a string or None raises TypeError
Evaluation(parsed) ==
    IF parsed.kind = "raised" THEN parsed
    ELSE IF parsed.val.t # "obj" THEN Raised(TypeError)
    ELSE WithKeys(parsed.val,
                  NormAnns(Prefix(ListOrEmpty(parsed.val, K_annotations).v, MAX_ANNOTATIONS)))

\* lines 128-144 and 360-375: from the reply's text to the evaluation
OllamaEvaluation(raw) == Evaluation(ParseJsonFromResponse(raw))

\* "\n\n".join(cs)
RECURSIVE JoinParagraphs(_, _)
JoinParagraphs(cs, i) ==
    IF i > Len(cs) THEN <<>>
    ELSE (IF i > 1 THEN <<"\n", "\n">> ELSE <<>>) \o cs[i] \o JoinParagraphs(cs, i + 1)

\* lines 156-162: the chunks taken before the ceiling would be passed
RECURSIVE ChunksThatFit(_, _, _)
ChunksThatFit(cs, i, n) ==
    IF i > Len(cs) \/ n + Len(cs[i]) > MAX_TEXT_LEN THEN <<>>
    ELSE <<cs[i]>> \o ChunksThatFit(cs, i + 1, n + Len(cs[i]))

\* line 163: "\n\n".join(out) if out else (bid_text or "")[:_MAX_TEXT_LEN]
JoinedOr(out, bid_text) ==
    IF out # <<>> THEN JoinParagraphs(out, 1) ELSE Prefix(bid_text, MAX_TEXT_LEN)

\* _bid_text_for_eval with the chunk branch tested first
BidTextForEvalChunksFirst(bid_text, evaluation_summary, text_chunks) ==
    IF text_chunks # <<>>
    THEN JoinedOr(ChunksThatFit(text_chunks, 1, 0), bid_text)
    ELSE IF Strip(evaluation_summary) # <<>>
    THEN Prefix(Strip(evaluation_summary), MAX_TEXT_LEN)
    ELSE Prefix(bid_text, MAX_TEXT_LEN)

\* lines 150-153: the summary, the marker and the excerpt, cut at the ceiling
SummaryThenExcerpt(prefix, text_chunks) ==
    Prefix(prefix \o (IF text_chunks # <<>>
                      THEN ExcerptMarker \o Prefix(text_chunks[1], EXCERPT_LEN)
                      ELSE <<>>),
           MAX_TEXT_LEN)

\* lines 149-164 on the trimmed summary
SelectBidText(bid_text, trimmed, text_chunks) ==
    IF trimmed # <<>> THEN SummaryThenExcerpt(trimmed, text_chunks)
    ELSE IF text_chunks # <<>> THEN JoinedOr(ChunksThatFit(text_chunks, 1, 0), bid_text)
    ELSE Prefix(bid_text, MAX_TEXT_LEN)

\* _bid_text_for_eval; None and "" are both the empty sequence
BidTextForEval(bid_text, evaluation_summary, text_chunks) ==
    SelectBidText(bid_text, Strip(evaluation_summary), text_chunks)

(***************************************************************************)
(* VendorExtractor: _parse_extraction_json, _ollama_extract_vendor,        *)
(* extract_vendor_and_rep                                                  *)
(***************************************************************************)
EXTRACTION_MAX_LEN == 8000
DEFAULT_SUMMARY_LEN == 800

\* _parse_extraction_json: the second json.loads runs inside the first
\* handler, so its JSONDecodeError is not caught by the clause below it
ParseExtractionCut(cut) ==
    FirstLoaded(JsonLoads(cut), JsonLoads(FixTrailingCommas(cut)), Raised(JSONDecodeError))

ParseExtractionJson(raw) == ParseExtractionCut(CutText(raw))

\* chars or None
OrNone(chars) == IF chars # <<>> THEN JStr(chars) ELSE JNull

\* line 298: (bid_text or "")[:800].strip() or None
DefaultSummary(bid_text) == OrNone(Strip(Prefix(bid_text, DEFAULT_SUMMARY_LEN)))

\* lines 297-299 and 313 on the outcome of _parse_extraction_json; line 313
\* reads out.get("vendor", {}).get("name") for the log
Extraction(parsed, bid_text) ==
    IF parsed.kind = "raised" THEN parsed
    ELSE IF parsed.val.t # "obj" THEN Raised(TypeError)
    ELSE IF HasKey(parsed.val, K_vendor) /\ GetKey(parsed.val, K_vendor).t # "obj"
    THEN Raised(AttributeError)
    ELSE IF HasKey(parsed.val, K_bid_summary) /\ Truthy(GetKey(parsed.val, K_bid_summary))
    THEN parsed
    ELSE Returned(JObj(PutKey(parsed.val.v, K_bid_summary, DefaultSummary(bid_text))))

\* lines 296-299 and 313: from the reply's text to the extraction
OllamaExtraction(raw, bid_text) == Extraction(ParseExtractionJson(raw), bid_text)

(***************************************************************************)
(* One call of evaluate_bid, evaluate_bid_with_context or                  *)
(* extract_vendor_and_rep, up to its return                                *)
(***************************************************************************)
Invocation(kind, bid_slice, notes_slice) ==
    [mode |-> kind, bid |-> bid_slice, notes |-> notes_slice]
Warning(what, exc) == [event |-> what, error |-> exc]

\* lines 180-182: the provider is called when OLLAMA_BASE_URL is set
Invoke(kind, bid_slice, notes_slice) ==
    /\ invocations' = Append(invocations, Invocation(kind, bid_slice, notes_slice))
    /\ epc' = kind
    /\ UNCHANGED result

Return(val) ==
    /\ result' = Returned(val)
    /\ epc' = "done"
    /\ UNCHANGED invocations

\* evaluate_bid; _ollama_evaluate_bid cuts the text again at line 112
EvaluateBid(bid_text, evaluation_summary, text_chunks) ==
    IF configured
    THEN Invoke("plain",
                Prefix(BidTextForEval(bid_text, evaluation_summary, text_chunks), MAX_TEXT_LEN),
                <<>>)
    ELSE Return(MockEvaluation)

\* the handler of evaluate_bid letting the exception through
EvaluationFailedReraise(exc) ==
    /\ warnings' = Append(warnings, Warning("evaluation failed", exc))
    /\ result' = Raised(exc)
    /\ epc' = "done"
    /\ UNCHANGED invocations

\* the handler of evaluate_bid calling the provider once more
EvaluationFailedRetry(exc) ==
    /\ warnings' = Append(warnings, Warning("evaluation failed", exc))
    /\ IF Len(warnings) < 2
       THEN Invoke("plain", invocations[Len(invocations)].bid, <<>>)
       ELSE Return(JObj(PutKey(MockEvaluation.v, K_evaluation_source, JStr(<<"m", "o", "c", "k">>))))

\* lines 185-189: the handler of evaluate_bid
EvaluationFailed(exc) ==
    /\ warnings' = Append(warnings, Warning("evaluation failed", exc))
    /\ Return(JObj(PutKey(MockEvaluation.v, K_evaluation_source, JStr(<<"m", "o", "c", "k">>))))

\* lines 181-189: the try of evaluate_bid
EvaluationSettled(out) ==
    IF out.kind = "returned"
    THEN Return(out.val) /\ UNCHANGED warnings
    ELSE EvaluationFailed(out.val.v)

\* lines 376-378: the handler of evaluate_bid_with_context
ContextFailed(exc) ==
    /\ warnings' = Append(warnings, Warning("re-evaluation failed", exc))
    /\ EvaluateBid(bidText, <<>>, <<>>)

\* lines 339-378: the try of evaluate_bid_with_context
ContextSettled(out) ==
    IF out.kind = "returned"
    THEN Return(out.val) /\ UNCHANGED warnings
    ELSE ContextFailed(out.val.v)

\* lines 315-319: the handler of extract_vendor_and_rep
ExtractionFailed(exc) ==
    /\ warnings' = Append(warnings, Warning("extraction failed", exc))
    /\ Return(MockExtraction(bidText))

\* lines 311-319: the try of extract_vendor_and_rep
ExtractionSettled(out) ==
    IF out.kind = "returned"
    THEN Return(out.val) /\ UNCHANGED warnings
    ELSE ExtractionFailed(out.val.v)

HasNotes == Strip(notes) # <<>>

\* evaluate(requirements, bid, summary, chunks), and the same through
\* evaluate_bid_with_context without notes (lines 332-333)
EvaluateCall ==
    /\ epc = "call"
    /\ op = "evaluate" \/ (op = "evaluateWithContext" /\ ~HasNotes)
    /\ EvaluateBid(bidText, summary, tchunks)
    /\ UNCHANGED <<op, configured, bidText, summary, tchunks, notes, warnings>>
    /\ UNCHANGED notEval

\* evaluate_bid_with_context with notes, lines 334-357
ContextCall ==
    /\ epc = "call"
    /\ op = "evaluateWithContext"
    /\ HasNotes
    /\ IF configured
       THEN Invoke("augmented", Prefix(bidText, MAX_TEXT_LEN), Prefix(notes, NOTES_LEN))
       ELSE Return(MockEvaluation)
    /\ UNCHANGED <<op, configured, bidText, summary, tchunks, notes, warnings>>
    /\ UNCHANGED notEval

\* extract_vendor_and_rep, lines 308-312 and 317-319
ExtractCall ==
    /\ epc = "call"
    /\ op = "extractVendor"
    /\ IF configured
       THEN Invoke("extract", Prefix(bidText, EXTRACTION_MAX_LEN), <<>>)
       ELSE Return(MockExtraction(bidText))
    /\ UNCHANGED <<op, configured, bidText, summary, tchunks, notes, warnings>>
    /\ UNCHANGED notEval

\* what client.chat raises when the provider is down or slow
ProviderErrors == {<<"ConnectError">>, <<"ReadTimeout">>}

\* client.chat raises
ProviderFails(exc) ==
    /\ epc \in {"plain", "augmented", "extract"}
    /\ CASE epc = "plain" -> EvaluationFailed(exc)
         [] epc = "augmented" -> ContextFailed(exc)
         [] epc = "extract" -> ExtractionFailed(exc)
    /\ UNCHANGED <<op, configured, bidText, summary, tchunks, notes>>
    /\ UNCHANGED notEval

\* client.chat returns the text raw to _ollama_evaluate_bid
PlainReplies(raw) ==
    /\ epc = "plain"
    /\ EvaluationSettled(OllamaEvaluation(raw))
    /\ UNCHANGED <<op, configured, bidText, summary, tchunks, notes>>
    /\ UNCHANGED notEval

\* client.chat returns the text raw to evaluate_bid_with_context
AugmentedReplies(raw) ==
    /\ epc = "augmented"
    /\ ContextSettled(OllamaEvaluation(raw))
    /\ UNCHANGED <<op, configured, bidText, summary, tchunks, notes>>
    /\ UNCHANGED notEval

\* client.chat returns the text raw to _ollama_extract_vendor
ExtractReplies(raw) ==
    /\ epc = "extract"
    /\ ExtractionSettled(OllamaExtraction(raw, bidText))
    /\ UNCHANGED <<op, configured, bidText, summary, tchunks, notes>>
    /\ UNCHANGED notEval

\* what the provider may answer to an evaluation prompt
FullReply ==
    <<"{", Quote, "s", "c", "o", "r", "e", Quote, ":", " ", "7", "2", ",", " ", Quote, "r", "e",
    "a", "s", "o", "n", "i", "n", "g", Quote, ":", " ", Quote, "o", "k", Quote, ",", " ",
    Quote, "r", "e", "q", "u", "i", "r", "e", "m", "e", "n", "t", "s", "_", "b", "r", "e", "a",
    "k", "d", "o", "w", "n", Quote, ":", " ", "[", "{", Quote, "r", "e", "q", "u", "i", "r",
    "e", "m", "e", "n", "t", Quote, ":", " ", Quote, "r", Quote, ",", " ", Quote, "c", "o",
    "m", "p", "l", "i", "a", "n", "t", Quote, ":", " ", "t", "r", "u", "e", ",", " ", Quote,
    "n", "o", "t", "e", Quote, ":", " ", Quote, "n", Quote, "}", "]", ",", " ", Quote, "a",
    "n", "n", "o", "t", "a", "t", "i", "o", "n", "s", Quote, ":", " ", "[", "{", Quote, "q",
    "u", "o", "t", "e", Quote, ":", " ", Quote, " ", "q", "1", " ", Quote, ",", " ", Quote,
    "r", "e", "a", "s", "o", "n", Quote, ":", " ", Quote, "w", "h", "y", Quote, ",", " ",
    Quote, "p", "a", "g", "e", Quote, ":", " ", "2", "}", ",", " ", "{", Quote, "q", "u", "o",
    "t", "e", Quote, ":", " ", "n", "u", "l", "l", ",", " ", Quote, "p", "a", "g", "e", Quote,
    ":", " ", Quote, "3", Quote, "}", ",", " ", Quote, "x", Quote, ",", " ", "{", Quote, "r",
    "e", "a", "s", "o", "n", Quote, ":", " ", "5", ",", " ", Quote, "p", "a", "g", "e", Quote,
    ":", " ", "0", "}", ",", " ", "{", Quote, "q", "u", "o", "t", "e", Quote, ":", " ", Quote,
    "f", Quote, ",", " ", Quote, "p", "a", "g", "e", Quote, ":", " ", "2", ".", "7", "}", ",",
    " ", "{", Quote, "q", "u", "o", "t", "e", Quote, ":", " ", Quote, "b", Quote, ",", " ",
    Quote, "p", "a", "g", "e", Quote, ":", " ", "t", "r", "u", "e", "}", "]", "}">>
FencedReply ==
    <<Backquote, Backquote, Backquote, "j", "s", "o", "n", "\n", "{", Quote, "s", "c", "o", "r",
    "e", Quote, ":", " ", "4", "0", ".", "5", ",", " ", Quote, "r", "e", "a", "s", "o", "n",
    "i", "n", "g", Quote, ":", " ", Quote, "w", "e", "a", "k", Quote, ",", "}", "\n",
    Backquote, Backquote, Backquote>>
WordPageReply ==
    <<"{", Quote, "s", "c", "o", "r", "e", Quote, ":", " ", "1", "0", ",", " ", Quote, "a", "n",
    "n", "o", "t", "a", "t", "i", "o", "n", "s", Quote, ":", " ", "[", "{", Quote, "q", "u",
    "o", "t", "e", Quote, ":", " ", Quote, "q", Quote, ",", " ", Quote, "p", "a", "g", "e",
    Quote, ":", " ", Quote, "t", "w", "o", Quote, "}", "]", "}">>
ListReply ==
    <<"[", "1", ",", " ", "2", "]">>
ProseReply ==
    <<"s", "o", "r", "r", "y">>
EmptyReply ==
    <<>>
NoListsReply ==
    <<"{", Quote, "s", "c", "o", "r", "e", Quote, ":", " ", "5", "5", ",", " ", Quote, "a", "n",
    "n", "o", "t", "a", "t", "i", "o", "n", "s", Quote, ":", " ", "{", Quote, "a", Quote, ":",
    " ", "1", "}", ",", " ", Quote, "r", "e", "q", "u", "i", "r", "e", "m", "e", "n", "t", "s",
    "_", "b", "r", "e", "a", "k", "d", "o", "w", "n", Quote, ":", " ", "n", "u", "l", "l", "}">>
ManyAnnotationsReply ==
    <<"{", Quote, "s", "c", "o", "r", "e", Quote, ":", " ", "5", ",", " ", Quote, "a", "n", "n",
    "o", "t", "a", "t", "i", "o", "n", "s", Quote, ":", " ", "[", "{", Quote, "q", "u", "o",
    "t", "e", Quote, ":", " ", Quote, "a", "0", Quote, "}", ",", " ", "{", Quote, "q", "u",
    "o", "t", "e", Quote, ":", " ", Quote, "a", "1", Quote, "}", ",", " ", "{", Quote, "q",
    "u", "o", "t", "e", Quote, ":", " ", Quote, "a", "2", Quote, "}", ",", " ", "{", Quote,
    "q", "u", "o", "t", "e", Quote, ":", " ", Quote, "a", "3", Quote, "}", ",", " ", "{",
    Quote, "q", "u", "o", "t", "e", Quote, ":", " ", Quote, "a", "4", Quote, "}", ",", " ",
    "{", Quote, "q", "u", "o", "t", "e", Quote, ":", " ", Quote, "a", "5", Quote, "}", ",",
    " ", "{", Quote, "q", "u", "o", "t", "e", Quote, ":", " ", Quote, "a", "6", Quote, "}",
    ",", " ", "{", Quote, "q", "u", "o", "t", "e", Quote, ":", " ", Quote, "a", "7", Quote,
    "}", ",", " ", "{", Quote, "q", "u", "o", "t", "e", Quote, ":", " ", Quote, "a", "8",
    Quote, "}", ",", " ", "{", Quote, "q", "u", "o", "t", "e", Quote, ":", " ", Quote, "a",
    "9", Quote, "}", ",", " ", "{", Quote, "q", "u", "o", "t", "e", Quote, ":", " ", Quote,
    "a", "1", "0", Quote, "}", ",", " ", "{", Quote, "q", "u", "o", "t", "e", Quote, ":", " ",
    Quote, "a", "1", "1", Quote, "}", ",", " ", "{", Quote, "q", "u", "o", "t", "e", Quote,
    ":", " ", Quote, "a", "1", "2", Quote, "}", ",", " ", "{", Quote, "q", "u", "o", "t", "e",
    Quote, ":", " ", Quote, "a", "1", "3", Quote, "}", ",", " ", "{", Quote, "q", "u", "o",
    "t", "e", Quote, ":", " ", Quote, "a", "1", "4", Quote, "}", ",", " ", "{", Quote, "q",
    "u", "o", "t", "e", Quote, ":", " ", Quote, "a", "1", "5", Quote, "}", "]", "}">>
EvalReplies ==
    {FullReply,
     FencedReply,
     WordPageReply,
     ListReply,
     ProseReply,
     EmptyReply,
     NoListsReply,
     ManyAnnotationsReply}

\* what the provider may answer to an extraction prompt
VendorReply ==
    <<"{", Quote, "v", "e", "n", "d", "o", "r", Quote, ":", " ", "{", Quote, "n", "a", "m", "e",
    Quote, ":", " ", Quote, "A", "c", "m", "e", Quote, ",", " ", Quote, "a", "d", "d", "r",
    "e", "s", "s", Quote, ":", " ", "n", "u", "l", "l", ",", " ", Quote, "w", "e", "b", "s",
    "i", "t", "e", Quote, ":", " ", Quote, "a", "c", "m", "e", ".", "c", "o", "m", Quote, ",",
    " ", Quote, "d", "o", "m", "a", "i", "n", Quote, ":", " ", Quote, "a", "c", "m", "e", ".",
    "c", "o", "m", Quote, "}", ",", " ", Quote, "r", "e", "p", "r", "e", "s", "e", "n", "t",
    "a", "t", "i", "v", "e", "s", Quote, ":", " ", "[", "{", Quote, "n", "a", "m", "e", Quote,
    ":", " ", Quote, "A", "n", "n", Quote, ",", " ", Quote, "e", "m", "a", "i", "l", Quote,
    ":", " ", Quote, "a", "@", "a", "c", "m", "e", ".", "c", "o", "m", Quote, ",", " ", Quote,
    "p", "h", "o", "n", "e", Quote, ":", " ", "n", "u", "l", "l", ",", " ", Quote, "d", "e",
    "s", "i", "g", "n", "a", "t", "i", "o", "n", Quote, ":", " ", "n", "u", "l", "l", "}", "]",
    ",", " ", Quote, "b", "i", "d", "_", "s", "u", "m", "m", "a", "r", "y", Quote, ":", " ",
    Quote, "O", "f", "f", "e", "r", ".", Quote, "}">>
NoSummaryReply ==
    <<"{", Quote, "v", "e", "n", "d", "o", "r", Quote, ":", " ", "{", Quote, "n", "a", "m", "e",
    Quote, ":", " ", Quote, "A", "c", "m", "e", Quote, "}", ",", " ", Quote, "r", "e", "p",
    "r", "e", "s", "e", "n", "t", "a", "t", "i", "v", "e", "s", Quote, ":", " ", "[", "]", "}">>
NullVendorReply ==
    <<"{", Quote, "v", "e", "n", "d", "o", "r", Quote, ":", " ", "n", "u", "l", "l", ",", " ",
    Quote, "r", "e", "p", "r", "e", "s", "e", "n", "t", "a", "t", "i", "v", "e", "s", Quote,
    ":", " ", "[", "]", "}">>
EmptySummaryReply ==
    <<"{", Quote, "r", "e", "p", "r", "e", "s", "e", "n", "t", "a", "t", "i", "v", "e", "s",
    Quote, ":", " ", "[", "]", ",", " ", Quote, "b", "i", "d", "_", "s", "u", "m", "m", "a",
    "r", "y", Quote, ":", " ", Quote, Quote, "}">>
CommaVendorReply ==
    <<"{", Quote, "v", "e", "n", "d", "o", "r", Quote, ":", " ", "{", Quote, "n", "a", "m", "e",
    Quote, ":", " ", Quote, "A", Quote, "}", ",", "}">>
ExtractionReplies ==
    {VendorReply,
     NoSummaryReply,
     NullVendorReply,
     EmptySummaryReply,
     CommaVendorReply, ListReply, ProseReply}

Ops == {"evaluate", "evaluateWithContext", "extractVendor"}

\* n copies of the character c
Repeat(c, n) == SubSeq([i \in 1..n |-> c], 1, n)

ShortBid == <<"r", "a", "w", " ", "b", "i", "d">>
BidTexts == {<<>>, ShortBid, Repeat("b", EXTRACTION_MAX_LEN + 1)}

BlankSummary == <<" ", " ">>
PaddedSummary == <<" ", "S", "u", "m", ".", " ", "\n">>
Summaries == {<<>>, BlankSummary, PaddedSummary, Repeat("s", MAX_TEXT_LEN + 1)}

Alpha == <<"a", "l", "p", "h", "a">>
Beta == <<"b", "e", "t", "a">>
ChunkLists ==
    {<<>>,
     <<Alpha, Beta>>,
     <<Repeat("c", EXCERPT_LEN + 100), Beta>>,
     <<Repeat("d", MAX_TEXT_LEN - 1000), Repeat("c", EXCERPT_LEN + 100)>>,
     <<Repeat("d", MAX_TEXT_LEN - 1000), Repeat("e", 1000)>>}

NotesTexts == {<<>>, <<" ">>, <<"n", "o", "t", "e">>}

EvalInit ==
    /\ op \in Ops
    /\ configured \in BOOLEAN
    /\ bidText \in BidTexts
    /\ summary \in (IF op = "extractVendor" THEN {<<>>} ELSE Summaries)
    /\ tchunks \in (IF op = "extractVendor" THEN {<<>>} ELSE ChunkLists)
    /\ notes \in (IF op = "evaluateWithContext" THEN NotesTexts ELSE {<<>>})
    /\ epc = "call"
    /\ invocations = <<>>
    /\ warnings = <<>>
    /\ result = <<>>
    /\ ChunkIdle
    /\ LocatorIdle
    /\ RepairIdle
    /\ VendorIdle
    /\ WorkflowIdle

EvalNext ==
    \/ EvaluateCall
    \/ ContextCall
    \/ ExtractCall
    \/ \E exc \in ProviderErrors : ProviderFails(exc)
    \/ \E raw \in EvalReplies : PlainReplies(raw)
    \/ \E raw \in EvalReplies : AugmentedReplies(raw)
    \/ \E raw \in ExtractionReplies : ExtractReplies(raw)

SpecEval == EvalInit /\ [][EvalNext]_vars

EvaluationOps == {"evaluate", "evaluateWithContext"}
LastWarning == warnings[Len(warnings)]

\* C1: whenever no provider is configured or a provider call of the call
\* failed (raised, timed out, gave text that cannot be repaired), the call
\* returns, and an evaluation operation returns the fixed mock evaluation.
FallbackIsTheMock ==
    epc = "done" /\ (~configured \/ warnings # <<>>) =>
        /\ result.kind = "returned"
        /\ op \in EvaluationOps => result.val = MockEvaluation

\* C1, amended: every call returns and raises nothing; an evaluation
\* operation returns the fixed mock evaluation (source "mock", score 85.5)
\* when no provider is configured or its last provider call failed, and the
\* model's evaluation when the plain call made after a failed augmented
\* call succeeds.
FallbackAfterLastFailure ==
    epc = "done" =>
        /\ result.kind = "returned"
        /\ op \in EvaluationOps /\ ~configured => result.val = MockEvaluation
        /\ op \in EvaluationOps /\ warnings # <<>> =>
               IF LastWarning.event = "evaluation failed"
               THEN /\ result.val = MockEvaluation
                    /\ GetKey(result.val, K_evaluation_source) = JStr(<<"m", "o", "c", "k">>)
                    /\ GetKey(result.val, K_score) = JFloat(<<"8", "5">>, <<"5">>)
               ELSE /\ LastWarning.event = "re-evaluation failed"
                    /\ GetKey(result.val, K_evaluation_source) = JStr(Ollama)

\* an evaluation with notes whose augmented call and plain call both failed
FellBackTwice ==
    /\ epc = "done"
    /\ op = "evaluateWithContext"
    /\ Len(warnings) = 2
    /\ result = Returned(MockEvaluation)

EvaluateWithoutNotes == op = "evaluate" \/ (op = "evaluateWithContext" /\ ~HasNotes)

\* C9: in an evaluate call without reviewer notes, with a non-empty summary
\* and at least one chunk, the bid text of the prompt is the trimmed summary
\* followed by an excerpt of at most 1200 characters of the first chunk.
PromptStartsWithSummary ==
    EvaluateWithoutNotes /\ summary # <<>> /\ tchunks # <<>> /\ invocations # <<>> =>
        LET k == Len(invocations[1].bid) - Len(Strip(summary)) - Len(ExcerptMarker)
        IN  /\ k \in 0..EXCERPT_LEN
            /\ invocations[1].bid = Strip(summary) \o ExcerptMarker \o Prefix(tchunks[1], k)

\* C9, amended: when the summary is not blank and at least one chunk exists,
\* the bid text of the prompt is the first 6000 characters of: the trimmed
\* summary, the excerpt marker, the first 1200 characters of the first chunk.
PromptIsSummaryThenExcerpt ==
    EvaluateWithoutNotes /\ Strip(summary) # <<>> /\ tchunks # <<>> /\ invocations # <<>> =>
        invocations[1].bid =
            Prefix(Strip(summary) \o ExcerptMarker \o Prefix(tchunks[1], EXCERPT_LEN),
                   MAX_TEXT_LEN)

\* a prompt built from a summary that needed trimming and a first chunk
\* longer than the excerpt
PromptFromPaddedSummary ==
    /\ EvaluateWithoutNotes
    /\ invocations # <<>>
    /\ summary = PaddedSummary
    /\ tchunks # <<>>
    /\ Len(tchunks[1]) > EXCERPT_LEN
    /\ Len(invocations[1].bid) = Len(Strip(summary)) + Len(ExcerptMarker) + EXCERPT_LEN

\* C10: a call makes at most one provider invocation.
AtMostOneInvocation == Len(invocations) <= 1

\* C10, amended: evaluate, extractVendor and evaluateWithContext without
\* notes invoke the provider at most once and go to the mock when it fails;
\* evaluateWithContext with notes invokes it at most twice: the augmented
\* prompt, then, only after that call failed, the plain prompt once.
InvocationsPerCall ==
    /\ Len(invocations) <= (IF op = "evaluateWithContext" /\ HasNotes THEN 2 ELSE 1)
    /\ Len(invocations) = 2 =>
           /\ invocations[1].mode = "augmented"
           /\ invocations[2].mode = "plain"
           /\ warnings # <<>>
           /\ warnings[1].event = "re-evaluation failed"
    /\ warnings # <<>> /\ LastWarning.event \in {"evaluation failed", "extraction failed"} =>
           epc = "done"

\* a call that invoked the provider twice and has returned
InvokedTwice ==
    /\ epc = "done"
    /\ Len(invocations) = 2
    /\ Len(warnings) = 1

(***************************************************************************)
(* VendorMatcher: extract_vendor and _find_or_create_vendor                *)
(*                                                                         *)
(* The vendors and vendor_reps tables are sequences of rows in insertion   *)
(* order.  A row written by a request that has not committed carries the   *)
(* request as its owner and is seen by that request only (PostgreSQL, the  *)
(* default DATABASE_URL, runs READ COMMITTED); owner 0 is a committed row. *)
(* Neither table has a unique constraint on name or website.               *)
(***************************************************************************)
UnknownVendor == <<"U", "n", "k", "n", "o", "w", "n", " ", "V", "e", "n", "d", "o", "r">>
MAX_REPS == 5

\* extraction.get("vendor") or {}
VendorOf(extraction) ==
    IF Truthy(GetKey(extraction, K_vendor)) THEN GetKey(extraction, K_vendor) ELSE JObj(<<>>)

\* (v.get(key) or "").strip() of a value that is a string or None
StrippedOrEmpty(v, key) == IF Truthy(GetKey(v, key)) THEN Strip(GetKey(v, key).v) ELSE <<>>

\* the name as the extraction gives it, stripped
VendorNameAsGiven(extraction) == StrippedOrEmpty(VendorOf(extraction), K_name)

\* line 73
VendorName(extraction) ==
    IF StrippedOrEmpty(VendorOf(extraction), K_name) # <<>>
    THEN StrippedOrEmpty(VendorOf(extraction), K_name)
    ELSE UnknownVendor

\* line 75: the empty sequence stands for None
VendorWebsite(extraction) == StrippedOrEmpty(VendorOf(extraction), K_website)

\* (extraction.get("representatives") or [])[:5]
RepsOf(extraction) ==
    IF Truthy(GetKey(extraction, K_representatives))
    THEN Prefix(GetKey(extraction, K_representatives).v, MAX_REPS)
    ELSE <<>>

\* value ILIKE pattern from position j of the value and i of the pattern:
\* % stands for any run of characters, _ for any one character, a backslash
\* makes the next pattern character literal, letters compare without case
RECURSIVE LikeFrom(_, _, _, _)
LikeFrom(p, i, s, j) ==
    IF i > Len(p) THEN j > Len(s)
    ELSE IF p[i] = "%" THEN \E k \in j..(Len(s) + 1) : LikeFrom(p, i + 1, s, k)
    ELSE IF j > Len(s) THEN FALSE
    ELSE IF p[i] = "_" THEN LikeFrom(p, i + 1, s, j + 1)
    ELSE IF p[i] = Backslash /\ i < Len(p)
         THEN LowerChar(p[i + 1]) = LowerChar(s[j]) /\ LikeFrom(p, i + 2, s, j + 1)
    ELSE LowerChar(p[i]) = LowerChar(s[j]) /\ LikeFrom(p, i + 1, s, j + 1)

\* Vendor.name.ilike(name): the extracted name is the pattern
ILike(value, pattern) == LikeFrom(pattern, 1, value, 1)

\* the rows request r reads
Visible(rows, r) ==
    LET Seen(row) == row.owner \in {0, r}
    IN SelectSeq(rows, Seen)

\* .first(): the id of the first row, 0 for None (no ORDER BY: rows come in
\* insertion order)
First(rows) == IF rows = <<>> THEN 0 ELSE rows[1].id

\* lines 79-80
NameMatch(rows, name) ==
    LET Named(row) == ILike(row.name, name)
    IN IF name # UnknownVendor THEN First(SelectSeq(rows, Named)) ELSE 0

\* lines 81-82
WebsiteMatch(rows, website) ==
    LET Sited(row) == row.website = website
    IN IF website # <<>> THEN First(SelectSeq(rows, Sited)) ELSE 0

\* lines 78-82: the id of the existing vendor, 0 when there is none
Existing(rows, name, website) ==
    IF NameMatch(rows, name) # 0 THEN NameMatch(rows, name) ELSE WebsiteMatch(rows, website)

AsciiLetters ==
    {"a", "b", "c", "d", "e", "f", "g", "h", "i", "j", "k", "l", "m", "n", "o", "p", "q", "r",
     "s", "t", "u", "v", "w", "x", "y", "z", "A", "B", "C", "D", "E", "F", "G", "H", "I", "J",
     "K", "L", "M", "N", "O", "P", "Q", "R", "S", "T", "U", "V", "W", "X", "Y", "Z"}

AllIn(s, i, j, chars) == \A k \in i..j : s[k] \in chars

\* EMAIL_PATTERN.match(s): local part, @, domain, a dot, two letters or more
EmailMatches(s) ==
    \E at \in 2..Len(s), dot \in 4..Len(s) :
        /\ s[at] = "@"
        /\ s[dot] = "."
        /\ dot >= at + 2
        /\ Len(s) - dot >= 2
        /\ AllIn(s, 1, at - 1, AsciiLetters \cup Digits \cup {".", "_", "%", "+", "-"})
        /\ AllIn(s, at + 1, dot - 1, AsciiLetters \cup Digits \cup {".", "-"})
        /\ AllIn(s, dot + 1, Len(s), AsciiLetters)

\* the tri-state flags: True, False, None
Flag(b) == JBool(b)
Unknown == JNull

\* verify_email
VerifyEmail(email) == IF Strip(email) = <<>> THEN Unknown ELSE Flag(EmailMatches(Strip(email)))

\* re.sub(r"[\s\-\.]", "", s)
Compact(s) ==
    LET Kept(c) == c \notin Whitespace \cup {"-", "."}
    IN SelectSeq(s, Kept)

\* PHONE_E164_PATTERN.match(s)
E164Matches(s) ==
    LET d == IF At(s, 1) = "+" THEN Tail(s) ELSE s
    IN /\ Len(d) \in 2..15
       /\ d[1] \in Digits \ {"0"}
       /\ AllIn(d, 2, Len(d), Digits)

\* PHONE_LOOSE_PATTERN.match(s)
LooseMatches(s) ==
    /\ Len(s) \in 10..20
    /\ AllIn(s, 1, Len(s), Digits \cup Whitespace \cup {"-", "(", ")", "+", "."})

\* verify_phone
VerifyPhone(phone) ==
    IF Strip(phone) = <<>> THEN Unknown
    ELSE Flag(E164Matches(Compact(Strip(phone))) \/ LooseMatches(Strip(phone)))

\* verify_website: whether the HEAD request is answered is the network's
VerifyWebsite(url, reachable) == IF Strip(url) = <<>> THEN Unknown ELSE Flag(reachable)

\* line 86 and lines 105-106: the agent is called for a value that is not empty
WhenGiven(value, flag) == IF value # <<>> THEN flag ELSE Unknown

Call(agent, arg, r) == [agent |-> agent, arg |-> arg, by |-> r]
CallWhenGiven(agent, value, r) == IF value # <<>> THEN <<Call(agent, value, r)>> ELSE <<>>

\* the columns of Vendor the matcher writes and reads
VendorRow(id, name, website, website_verified, r) ==
    [id |-> id, name |-> name, website |-> website, website_verified |-> website_verified,
     owner |-> r]

\* lines 99-109: the columns of VendorRep; email_verified is none of them
RepRow(vendor_id, rep, r) ==
    [vendor_id |-> vendor_id,
     name |-> StrippedOrEmpty(rep, K_name),
     email |-> StrippedOrEmpty(rep, K_email),
     phone |-> StrippedOrEmpty(rep, K_phone),
     designation |-> StrippedOrEmpty(rep, K_designation),
     phone_verified |-> WhenGiven(StrippedOrEmpty(rep, K_phone),
                                  VerifyPhone(StrippedOrEmpty(rep, K_phone))),
     owner |-> r]

NewReps(vendor_id, extraction, r) ==
    [k \in 1..Len(RepsOf(extraction)) |-> RepRow(vendor_id, RepsOf(extraction)[k], r)]

\* lines 107-108: the agents called for one representative
RepCalls(rep, r) ==
    CallWhenGiven("phone", StrippedOrEmpty(rep, K_phone), r)
    \o CallWhenGiven("email", StrippedOrEmpty(rep, K_email), r)

RECURSIVE AllRepCalls(_, _, _)
AllRepCalls(reps, k, r) ==
    IF k > Len(reps) THEN <<>> ELSE RepCalls(reps[k], r) \o AllRepCalls(reps, k + 1, r)

\* db.commit() of request r
Committed(rows, r) == [k \in 1..Len(rows) |-> [rows[k] EXCEPT !.owner = IF @ = r THEN 0 ELSE @]]

NameOfVendor(rows, id) == rows[CHOOSE k \in 1..Len(rows) : rows[k].id = id].name

Acme == <<"A", "c", "m", "e">>
AcmeUpper == <<"A", "C", "M", "E">>
AcmeSlash == <<"A", Backslash, "B">>
AcmeWild == <<"A", "_", "m", "e">>
AcmeSite == <<"a", "c", "m", "e", ".", "c", "o", "m">>
Eve == JObj(<< <<K_name, JStr(<<"E", "v", "e">>)>>,
               <<K_email, JStr(<<"e", "@", "x", ".", "i", "o">>)>>,
               <<K_phone, JNull>>,
               <<K_designation, JNull>> >>)
Bob == JObj(<< <<K_name, JStr(<<"B", "o", "b">>)>>,
               <<K_email, JStr(<<"b", "o", "b", "@", "x">>)>>,
               <<K_phone, JStr(<<"+", "1", "5", "5", "5", "-", "0", "1", "0", "0">>)>>,
               <<K_designation, JStr(<<" ">>)>> >>)
Zed == JObj(<< <<K_name, JNull>>, <<K_email, JStr(<<" ">>)>>, <<K_phone, JStr(<<"0", "7">>)>>,
               <<K_designation, JNull>> >>)

ExtractionOf(name, website, reps) ==
    JObj(<< <<K_vendor, JObj(<< <<K_name, name>>, <<K_address, JNull>>,
                                <<K_website, website>>, <<K_domain, JNull>> >>)>>,
            <<K_representatives, JArr(reps)>>,
            <<K_bid_summary, JNull>> >>)

\* the objects the provider may describe a bid with; no name ends in a
\* backslash
Described ==
    {ExtractionOf(name, website, reps) :
        name \in {JStr(Acme), JStr(AcmeUpper), JStr(AcmeSlash), JStr(AcmeWild), JStr(<<" ">>)},
        website \in {JNull, JStr(AcmeSite)},
        reps \in {<<>>, <<Eve, Bob>>, <<Zed, Eve, Bob, Eve, Bob, Zed>>}}

\* extract_vendor_and_rep, lines 309-319, on the outcome of
\* _ollama_extract_vendor: the extraction, the mock when it raised
OrMock(out, bid_text) == IF out.kind = "returned" THEN out.val ELSE MockExtraction(bid_text)

\* what extract_vendor_and_rep hands over when the provider replies raw
Handed(raw, bid_text) == OrMock(OllamaExtraction(raw, bid_text), bid_text)

\* what extract_vendor is handed at line 167: the provider's descriptions of
\* a bid without text, its other replies to a bid with text
Extractions ==
    {Handed(JsonDumps(e), <<>>) : e \in Described}
    \cup {Handed(raw, ShortBid) : raw \in ExtractionReplies}

Finished(r) == reqs[r].pc \in {"done", "failed"}

\* extract_vendor, lines 162-167: the bid is read and the extraction comes
\* back.  Within one event loop nothing interrupts lines 168-171, so a
\* request starts them only when no other request is in them.
ExtractVendor(r) ==
    /\ reqs[r].pc = "idle"
    /\ serial => \A q \in Requests \ {r} : reqs[q].pc = "idle" \/ Finished(q)
    /\ \E e \in Extractions :
           reqs' = [reqs EXCEPT ![r] = [@ EXCEPT !.pc = "lookup", !.extraction = e]]
    /\ UNCHANGED <<ctorRejects, serial, vendors, representatives, nextVendorId, bids,
                   verifications>>
    /\ UNCHANGED notVendor

\* lines 78-85 with the outcome of the queries: a vendor found is the vendor
\* returned
Found(r, existing) ==
    reqs' = [reqs EXCEPT ![r] = [@ EXCEPT !.pc = IF existing # 0 THEN "commit" ELSE "create",
                                          !.existing = existing,
                                          !.vendor = existing]]

\* a matcher that has the website of the vendor it found checked again
FindVendorVerifying(r) ==
    /\ reqs[r].pc = "lookup"
    /\ Found(r, Existing(Visible(vendors, r), VendorName(reqs[r].extraction),
                         VendorWebsite(reqs[r].extraction)))
    /\ verifications' =
           IF reqs'[r].existing # 0
           THEN Append(verifications, Call("website", VendorWebsite(reqs[r].extraction), r))
           ELSE verifications
    /\ UNCHANGED <<ctorRejects, serial, vendors, representatives, nextVendorId, bids>>
    /\ UNCHANGED notVendor

\* _find_or_create_vendor, lines 72-85: the two queries
FindVendor(r) ==
    /\ reqs[r].pc = "lookup"
    /\ Found(r, Existing(Visible(vendors, r), VendorName(reqs[r].extraction),
                         VendorWebsite(reqs[r].extraction)))
    /\ UNCHANGED <<ctorRejects, serial, vendors, representatives, nextVendorId, bids,
                   verifications>>
    /\ UNCHANGED notVendor

\* lines 86-112: the vendor is inserted and flushed, then its
\* representatives.  VendorRep(..., email_verified=...) names a keyword that
\* is no column of VendorRep; a constructor that rejects it raises TypeError
\* out of the request, whose session is closed and its insert rolled back.
CreateVendor(r) ==
    /\ reqs[r].pc = "create"
    /\ nextVendorId' = nextVendorId + 1
    /\ \E reachable \in (IF VendorWebsite(reqs[r].extraction) # <<>> THEN BOOLEAN ELSE {FALSE}) :
        IF ctorRejects /\ RepsOf(reqs[r].extraction) # <<>>
        THEN /\ reqs' = [reqs EXCEPT ![r] = [@ EXCEPT !.pc = "failed", !.exc = TypeError]]
             /\ verifications' =
                    verifications
                    \o CallWhenGiven("website", VendorWebsite(reqs[r].extraction), r)
                    \o RepCalls(RepsOf(reqs[r].extraction)[1], r)
             /\ UNCHANGED <<vendors, representatives>>
        ELSE /\ vendors' =
                    Append(vendors,
                           VendorRow(nextVendorId, VendorName(reqs[r].extraction),
                                     VendorWebsite(reqs[r].extraction),
                                     WhenGiven(VendorWebsite(reqs[r].extraction),
                                               VerifyWebsite(VendorWebsite(reqs[r].extraction),
                                                             reachable)),
                                     r))
             /\ representatives' = representatives \o NewReps(nextVendorId, reqs[r].extraction, r)
             /\ verifications' =
                    verifications
                    \o CallWhenGiven("website", VendorWebsite(reqs[r].extraction), r)
                    \o AllRepCalls(RepsOf(reqs[r].extraction), 1, r)
             /\ reqs' = [reqs EXCEPT ![r] = [@ EXCEPT !.pc = "commit", !.vendor = nextVendorId]]
    /\ UNCHANGED <<ctorRejects, serial, bids>>
    /\ UNCHANGED notVendor

\* extract_vendor, lines 169-171
CommitBid(r) ==
    /\ reqs[r].pc = "commit"
    /\ bids' = [bids EXCEPT ![r] = [vendor_id |-> reqs[r].vendor,
                                    vendor_name |-> NameOfVendor(vendors, reqs[r].vendor)]]
    /\ vendors' = Committed(vendors, r)
    /\ representatives' = Committed(representatives, r)
    /\ reqs' = [reqs EXCEPT ![r] = [@ EXCEPT !.pc = "done"]]
    /\ UNCHANGED <<ctorRejects, serial, nextVendorId, verifications>>
    /\ UNCHANGED notVendor

\* the tables are empty after start-up (main.py drops and recreates them)
VendorStart ==
    /\ ctorRejects \in BOOLEAN
    /\ vendors = <<>>
    /\ representatives = <<>>
    /\ nextVendorId = 1
    /\ bids = [b \in Requests |-> UploadedBid]
    /\ reqs = [r \in Requests |-> IdleRequest]
    /\ verifications = <<>>
    /\ ChunkIdle
    /\ LocatorIdle
    /\ RepairIdle
    /\ EvalIdle
    /\ WorkflowIdle

\* the requests are served one after the other
VendorInit == serial = TRUE /\ VendorStart

\* the requests are served by one event loop or by separate worker processes
VendorConcInit == serial \in BOOLEAN /\ VendorStart

VendorNext ==
    \/ \E r \in Requests : ExtractVendor(r)
    \/ \E r \in Requests : FindVendor(r)
    \/ \E r \in Requests : CreateVendor(r)
    \/ \E r \in Requests : CommitBid(r)

SpecVendor == VendorInit /\ [][VendorNext]_vars
SpecVendorConc == VendorConcInit /\ [][VendorNext]_vars

BearsName(r) == VendorName(reqs[r].extraction) # UnknownVendor
SameName(r, q) ==
    /\ BearsName(r)
    /\ BearsName(q)
    /\ Lower(VendorName(reqs[r].extraction)) = Lower(VendorName(reqs[q].extraction))
SameWebsite(r, q) ==
    /\ VendorWebsite(reqs[r].extraction) # <<>>
    /\ VendorWebsite(reqs[r].extraction) = VendorWebsite(reqs[q].extraction)

\* C5: after two resolves in sequence whose extractions bear the same vendor
\* name up to letter case, both have returned the same vendor and at most
\* one vendor has been stored.
ResolveTwiceSameVendor ==
    Finished(1) /\ Finished(2) /\ SameName(1, 2) =>
        /\ reqs[1].pc = "done"
        /\ reqs[2].pc = "done"
        /\ reqs[1].vendor = reqs[2].vendor
        /\ Len(vendors) <= 1

VendorsLike(r) ==
    {k \in 1..Len(vendors) :
        \/ BearsName(r) /\ Lower(vendors[k].name) = Lower(VendorName(reqs[r].extraction))
        \/ VendorWebsite(reqs[r].extraction) # <<>>
           /\ vendors[k].website = VendorWebsite(reqs[r].extraction)}

\* C6: after two concurrent extract-vendor requests for different bids whose
\* extractions bear the same vendor name or the same website, at most one
\* vendor with that name or website is stored and both bids reference it.
ConcurrentRequestsShareVendor ==
    Finished(1) /\ Finished(2) /\ (SameName(1, 2) \/ SameWebsite(1, 2)) =>
        /\ Cardinality(VendorsLike(1) \cup VendorsLike(2)) <= 1
        /\ bids[1].vendor_id # 0
        /\ bids[1].vendor_id = bids[2].vendor_id

IsText(val) == val.t = "str" /\ val.v # <<>>

WellFormedAnnotation(a) ==
    /\ a.t = "obj"
    /\ IsText(GetKey(a, K_quote))
    /\ IsText(GetKey(a, K_reason))
    /\ HasKey(a, K_page) => GetKey(a, K_page).t = "int" /\ NatOf(GetKey(a, K_page).v) >= 1

\* C14: in every result of evaluate and evaluateWithContext the requirement
\* breakdown and the annotations are sequences, every annotation has a
\* non-empty quote and reason, and a page that is present is an integer >= 1.
EvaluationWellFormed ==
    epc = "done" /\ op \in EvaluationOps /\ result.kind = "returned" =>
        /\ GetKey(result.val, K_requirements_breakdown).t = "arr"
        /\ GetKey(result.val, K_annotations).t = "arr"
        /\ \A i \in 1..Len(GetKey(result.val, K_annotations).v) :
               WellFormedAnnotation(GetKey(result.val, K_annotations).v[i])

\* the vendors other requests have committed whose name is the extracted
\* name of request r up to letter case, and those with its website
NamedAlike(r) ==
    {k \in 1..Len(vendors) :
        /\ vendors[k].owner = 0
        /\ BearsName(r)
        /\ Lower(vendors[k].name) = Lower(VendorName(reqs[r].extraction))}
SitedAlike(r) ==
    {k \in 1..Len(vendors) :
        /\ vendors[k].owner = 0
        /\ VendorWebsite(reqs[r].extraction) # <<>>
        /\ vendors[k].website = VendorWebsite(reqs[r].extraction)}
IdsOf(K) == {vendors[k].id : k \in K}

\* request r has found an existing vendor and not yet committed
FoundExisting(r) ==
    /\ reqs[r].pc = "commit"
    /\ \E k \in 1..Len(vendors) : vendors[k].id = reqs[r].vendor /\ vendors[k].owner = 0

\* C15: resolve matches by name only a vendor whose name is the extracted
\* name up to letter case, by website only when no such vendor exists and
\* the websites are equal, and goes on to create a vendor exactly when
\* neither match exists.
MatchByNameThenWebsite ==
    \A r \in Requests :
        /\ reqs[r].pc = "create" => NamedAlike(r) = {} /\ SitedAlike(r) = {}
        /\ FoundExisting(r) =>
               \/ reqs[r].vendor \in IdsOf(NamedAlike(r))
               \/ NamedAlike(r) = {} /\ reqs[r].vendor \in IdsOf(SitedAlike(r))

\* the calls request r has made to the verification agents
CallsBy(r) ==
    LET Mine(c) == c.by = r
    IN SelectSeq(verifications, Mine)

\* one call for a value that is not empty
Due(agent, value, r) ==
    IF value # <<>> THEN <<[agent |-> agent, arg |-> value, by |-> r]>> ELSE <<>>

\* what a creation is to call: the website, then phone and email of each of
\* the first five representatives
RECURSIVE DueForReps(_, _, _)
DueForReps(reps, k, r) ==
    IF k > Len(reps) \/ k > MAX_REPS THEN <<>>
    ELSE Due("phone", StrippedOrEmpty(reps[k], K_phone), r)
         \o Due("email", StrippedOrEmpty(reps[k], K_email), r)
         \o DueForReps(reps, k + 1, r)

DueCalls(r) ==
    Due("website", VendorWebsite(reqs[r].extraction), r)
    \o DueForReps(GetKey(reqs[r].extraction, K_representatives).v, 1, r)

IsPrefix(s, t) == Len(s) <= Len(t) /\ s = SubSeq(t, 1, Len(s))

\* request r takes a step of a resolve that matched an existing vendor
MatchedStep(r) == reqs'[r] # reqs[r] /\ reqs'[r].existing # 0

\* C16: a resolve that matches an existing vendor calls no verification
\* agent and leaves the vendors and representatives as they are; the agents
\* are called by a creation only, once for the website and once for each
\* phone and email of its representatives, when the value is not empty.
VerifiedOnCreationOnly ==
    /\ [][\A r \in Requests :
              MatchedStep(r) => UNCHANGED <<vendors, representatives, verifications>>]_vars
    /\ [](\A r \in Requests :
              /\ reqs[r].pc \in {"idle", "lookup", "create"} \/ reqs[r].existing # 0 =>
                     CallsBy(r) = <<>>
              /\ reqs[r].pc \in {"commit", "done"} /\ reqs[r].existing = 0 =>
                     CallsBy(r) = DueCalls(r)
              /\ reqs[r].pc = "failed" => IsPrefix(CallsBy(r), DueCalls(r)))

\* a resolve has matched the vendor of another request although its
\* extraction names a website and representatives of its own
MatchedWithOwnReps ==
    \E r \in Requests :
        /\ reqs[r].pc = "done"
        /\ reqs[r].existing # 0
        /\ DueCalls(r) # <<>>
        /\ Len(GetKey(reqs[r].extraction, K_representatives).v) > MAX_REPS
        /\ \E q \in Requests \ {r} : CallsBy(q) # <<>> /\ CallsBy(q) # DueCalls(r)

\* the representatives stored for vendor id, in insertion order
RepsOfVendor(id) ==
    LET Its(row) == row.vendor_id = id
    IN SelectSeq(representatives, Its)

\* request r went into the creation branch and has left it
Created(r) == reqs[r].existing = 0 /\ reqs[r].pc \in {"commit", "done", "failed"}

\* the stored row holds the flag of the agent for a value that is not
\* empty, unknown for an empty one
FlagStored(row, column, value, flag) ==
    /\ column \in DOMAIN row
    /\ row[column] = IF value # <<>> THEN flag ELSE Unknown

\* C17: a resolve that creates a vendor completes, and the vendor and each
\* of its at most five representatives are stored with their flags:
\* website_verified, phone_verified and email_verified are what the agent
\* says of the value, unknown when the value is empty.
CreationStoresFlags ==
    \A r \in Requests :
        Created(r) =>
            /\ reqs[r].pc # "failed"
            /\ \E k \in 1..Len(vendors) :
                   /\ vendors[k].id = reqs[r].vendor
                   /\ \/ VendorWebsite(reqs[r].extraction) = <<>>
                         /\ vendors[k].website_verified = Unknown
                      \/ VendorWebsite(reqs[r].extraction) # <<>>
                         /\ vendors[k].website_verified \in {Flag(TRUE), Flag(FALSE)}
            /\ Len(RepsOfVendor(reqs[r].vendor)) = Len(RepsOf(reqs[r].extraction))
            /\ Len(RepsOfVendor(reqs[r].vendor)) <= MAX_REPS
            /\ \A k \in 1..Len(RepsOfVendor(reqs[r].vendor)) :
                   /\ FlagStored(RepsOfVendor(reqs[r].vendor)[k], "phone_verified",
                                 RepsOfVendor(reqs[r].vendor)[k].phone,
                                 VerifyPhone(RepsOfVendor(reqs[r].vendor)[k].phone))
                   /\ FlagStored(RepsOfVendor(reqs[r].vendor)[k], "email_verified",
                                 RepsOfVendor(reqs[r].vendor)[k].email,
                                 VerifyEmail(RepsOfVendor(reqs[r].vendor)[k].email))

\* the name an extraction gives: a string under vendor.name
GivenName(e) ==
    IF HasKey(e, K_vendor) /\ GetKey(e, K_vendor).t = "obj"
       /\ GetKey(GetKey(e, K_vendor), K_name).t = "str"
    THEN GetKey(GetKey(e, K_vendor), K_name).v
    ELSE <<>>

ListedReps(e) == GetKey(e, K_representatives).v

PlainRequest == Invocation("plain", Prefix(BidTextForEval(bidText, summary, tchunks), MAX_TEXT_LEN), <<>>)

\* the augmented call of an evaluation with notes failed
Degraded ==
    /\ op = "evaluateWithContext"
    /\ HasNotes
    /\ warnings # <<>>
    /\ warnings[1].event = "re-evaluation failed"

\* C19: when the augmented call of an evaluateWithContext with notes fails
\* (the provider raises, or its reply cannot be parsed or normalized), the
\* call raises nothing and goes on as evaluate does for the same bid text,
\* stored summary and chunks: it sends the request evaluate sends and
\* returns what evaluate returns for the provider's answer to it.
DegradesToPlainEvaluate ==
    Degraded =>
        /\ Len(invocations) = 2
        /\ invocations[2] = PlainRequest
        /\ epc = "done" =>
               /\ result.kind = "returned"
               /\ IF Len(warnings) = 2
                  THEN result.val = MockEvaluation
                  ELSE \E raw \in EvalReplies : OllamaEvaluation(raw) = result

\* the chunks up to the m-th, as the prompt shows them
WholeChunks(m) == JoinParagraphs(SubSeq(tchunks, 1, m), 1)

\* the policy's chunk branch: no summary, chunks stored, the first one fits
ChunkBranch ==
    /\ EvaluateWithoutNotes
    /\ Strip(summary) = <<>>
    /\ tchunks # <<>>
    /\ Len(tchunks[1]) <= MAX_TEXT_LEN

\* C20: the bid text of every evaluation prompt is at most 6000 characters
\* long, whichever branch of the selection policy chose it, and in the chunk
\* branch it is a run of whole chunks that starts at the first chunk.
PromptTextBounded ==
    \A k \in 1..Len(invocations) :
        invocations[k].mode \in {"plain", "augmented"} =>
            /\ Len(invocations[k].bid) <= MAX_TEXT_LEN
            /\ ChunkBranch =>
                   \E m \in 1..Len(tchunks) : invocations[k].bid = WholeChunks(m)

\* C28: in an evaluateWithContext call with notes, a provider, a summary
\* that is not blank and chunks, the bid text of the augmented prompt is the
\* text plain evaluate selects: it starts with the summary.
AugmentedPromptStartsWithSummary ==
    /\ op = "evaluateWithContext"
    /\ HasNotes
    /\ configured
    /\ Strip(summary) # <<>>
    /\ tchunks # <<>>
    /\ invocations # <<>>
    => /\ invocations[1].mode = "augmented"
       /\ invocations[1].bid = PlainRequest.bid
       /\ IsPrefix(Prefix(Strip(summary), MAX_TEXT_LEN), invocations[1].bid)

(***************************************************************************)
(* Bid endpoints: evaluate_bid_endpoint, re_evaluate_bid_endpoint,         *)
(* update_bid_human, verify_annotation, update_bid_status, extract_vendor, *)
(* lock_rfp_bids.  The two evaluation endpoints and extract_vendor await   *)
(* asyncio.to_thread, so other requests are served between the moment      *)
(* they have read the bid and the moment they write it; the other handlers *)
(* are taken as one step.  A session writes, at commit, the columns whose   *)
(* value differs from the one it loaded.  last_eval_duration_seconds, a    *)
(* clock reading, is left out of the row.                                  *)
(***************************************************************************)
FINAL_BID_STATUSES == {"Approved", "Rejected"}

\* bound on the requests answered in one behaviour
MaxRequests == 3

\* the bid of the model and an id no bid has; the same for the RFP
BID_ID == 1
BidIds == {1, 2}
RFP_ID == 1
RfpIds == {1, 2}

K_reviewer_notes == <<"r", "e", "v", "i", "e", "w", "e", "r", "_", "n", "o", "t", "e", "s">>
K_verification_status == <<"v", "e", "r", "i", "f", "i", "c", "a", "t", "i", "o", "n", "_", "s", "t", "a", "t", "u",
    "s">>
K_verification_note == <<"v", "e", "r", "i", "f", "i", "c", "a", "t", "i", "o", "n", "_", "n", "o", "t", "e">>

\* the pages of the uploaded file and the cache json.dumps(page_texts) of them
DocPages == <<CatPage, DogPage>>
PageCache == JsonDumps(JArr(<<JStr(CatPage), JStr(DogPage)>>))

\* what the text_chunks column may hold: NULL, the cache, text that is no
\* JSON, JSON that is no list, a list of numbers
NotJson == <<"[", "o", "o", "p", "s">>
NumberList == <<"[", "1", ",", " ", "2", "]">>
StoredChunks == {JNull, JStr(PageCache), JStr(NotJson), JStr(<<"{", "}">>), JStr(NumberList)}

\* the row upload_bid writes (lines 136-145)
UploadedRow(text_chunks) ==
    [status |-> "Uploaded",
     vendor_id |-> JNull,
     vendor_name |-> JStr(VENDOR_EXTRACT_PLACEHOLDER),
     text_chunks |-> text_chunks,
     ai_score |-> JNull,
     ai_reasoning |-> JNull,
     ai_evaluation_source |-> JNull,
     ai_requirements_breakdown |-> JNull,
     ai_annotations |-> JNull,
     human_score |-> JNull,
     human_notes |-> JNull]

\* lines 295-302 and 375-382: the cached chunks, None when the column is
\* empty, cannot be parsed or holds no list
LoadedChunks(column) ==
    LET text_chunks == JsonLoads(column.v)
    IN  IF ~Truthy(column) THEN JNull
        ELSE IF text_chunks.ok /\ text_chunks.val.t = "arr" THEN text_chunks.val
        ELSE JNull

\* the first element of the list that is no string, 0 when all are strings
FirstOdd(elems) ==
    IF \E i \in 1..Len(elems) : elems[i].t # "str"
    THEN CHOOSE i \in 1..Len(elems) :
             elems[i].t # "str" /\ \A j \in 1..(i - 1) : elems[j].t = "str"
    ELSE 0

\* the strings before the k-th element
TextsBefore(elems, k) == SubSeq([i \in 1..Len(elems) |-> elems[i].v], 1, k - 1)

\* ai_service.py line 177 with evaluation_summary None: the loop of
\* _bid_text_for_eval calls len(c) on each chunk it reaches, which raises
\* TypeError on a number, a bool or None
SelectionRaises(text_chunks) ==
    /\ text_chunks.t = "arr"
    /\ FirstOdd(text_chunks.v) # 0
    /\ Len(ChunksThatFit(TextsBefore(text_chunks.v, FirstOdd(text_chunks.v)), 1, 0))
           = FirstOdd(text_chunks.v) - 1

\* ai_service.py lines 181-189: the evaluation, the mock when the provider
\* or the parsing of its reply failed
OrMockEvaluation(out) == IF out.kind = "returned" THEN out.val ELSE MockEvaluation

\* what evaluate_bid and evaluate_bid_with_context return for the reply raw
ServiceResult(raw) == OrMockEvaluation(OllamaEvaluation(raw))

\* (v or "").strip(): strip is no attribute of a number, a list or a dict
StripOrRaise(v) ==
    IF ~Truthy(v) THEN Returned(JStr(<<>>))
    ELSE IF v.t = "str" THEN Returned(JStr(Strip(v.v)))
    ELSE Raised(AttributeError)

\* the decimal digits of a natural number
DecimalDigits == <<"0", "1", "2", "3", "4", "5", "6", "7", "8", "9">>
RECURSIVE DigitsOf(_)
DigitsOf(n) ==
    IF n < 10 THEN <<DecimalDigits[n + 1]>>
    ELSE DigitsOf(n \div 10) \o <<DecimalDigits[(n % 10) + 1]>>

\* float(s) for the strings the replies hold: digits, or digits.digits
FloatOfStr(s) ==
    LET dot == Find(s, <<".">>)
        whole == IF dot < 0 THEN s ELSE SubSeq(s, 1, dot)
        frac == IF dot < 0 THEN <<>> ELSE SubSeq(s, dot + 2, Len(s))
    IN  IF /\ whole # <<>>
           /\ \A i \in 1..Len(whole) : whole[i] \in Digits
           /\ \A i \in 1..Len(frac) : frac[i] \in Digits
           /\ (dot < 0 \/ frac # <<>>)
        THEN Returned(JFloat(DropLeadingZeros(whole), DropTrailingZeros(frac)))
        ELSE Raised(ValueError)

\* float(score), lines 314 and 411
FloatOf(score) ==
    CASE score.t = "float" -> Returned(score)
      [] score.t = "int" -> Returned(JFloat(score.v, <<>>))
      [] score.t = "bool" -> Returned(JFloat(IF score.v[1] THEN <<"1">> ELSE <<"0">>, <<>>))
      [] score.t = "str" -> FloatOfStr(Strip(score.v))
      [] OTHER -> Raised(TypeError)

\* what the provider may answer: a full evaluation, one without reasoning
\* and breakdown whose first quote is not in the document, one without
\* lists, one whose score is a word
FirstReply ==
    <<"{", Quote, "s", "c", "o", "r", "e", Quote, ":", " ", "7", "2", ",", " ", Quote, "r", "e",
    "a", "s", "o", "n", "i", "n", "g", Quote, ":", " ", Quote, "o", "k", Quote, ",", " ",
    Quote, "r", "e", "q", "u", "i", "r", "e", "m", "e", "n", "t", "s", "_", "b", "r", "e", "a",
    "k", "d", "o", "w", "n", Quote, ":", " ", "[", "{", Quote, "r", "e", "q", "u", "i", "r",
    "e", "m", "e", "n", "t", Quote, ":", " ", Quote, "r", Quote, ",", " ", Quote, "c", "o",
    "m", "p", "l", "i", "a", "n", "t", Quote, ":", " ", "t", "r", "u", "e", ",", " ", Quote,
    "n", "o", "t", "e", Quote, ":", " ", Quote, "n", Quote, "}", "]", ",", " ", Quote, "a",
    "n", "n", "o", "t", "a", "t", "i", "o", "n", "s", Quote, ":", " ", "[", "{", Quote, "q",
    "u", "o", "t", "e", Quote, ":", " ", Quote, "t", "h", "e", " ", "c", "a", "t", " ", "s",
    "a", "t", " ", "o", "n", " ", "t", "h", "e", " ", "m", "a", "t", Quote, ",", " ", Quote,
    "r", "e", "a", "s", "o", "n", Quote, ":", " ", Quote, "w", "h", "y", Quote, "}", "]", "}">>
SecondReply ==
    <<"{", Quote, "s", "c", "o", "r", "e", Quote, ":", " ", "4", "0", ".", "5", ",", " ", Quote,
    "a", "n", "n", "o", "t", "a", "t", "i", "o", "n", "s", Quote, ":", " ", "[", "{", Quote,
    "q", "u", "o", "t", "e", Quote, ":", " ", Quote, "n", "o", "t", " ", "i", "n", " ", "t",
    "h", "e", " ", "f", "i", "l", "e", Quote, ",", " ", Quote, "r", "e", "a", "s", "o", "n",
    Quote, ":", " ", Quote, "x", Quote, "}", ",", " ", "{", Quote, "q", "u", "o", "t", "e",
    Quote, ":", " ", Quote, "t", "h", "e", " ", "c", "a", "t", " ", "s", "a", "t", " ", "o",
    "n", " ", "t", "h", "e", " ", "m", "a", "t", Quote, ",", " ", Quote, "r", "e", "a", "s",
    "o", "n", Quote, ":", " ", Quote, "w", "h", "y", Quote, "}", "]", "}">>
WordScoreReply ==
    <<"{", Quote, "s", "c", "o", "r", "e", Quote, ":", " ", Quote, "h", "i", "g", "h", Quote,
    "}">>
WorkflowReplies == {FirstReply, SecondReply, NoListsReply, WordScoreReply}

\* the results evaluate_bid and evaluate_bid_with_context may hand back
WorkflowResults == {ServiceResult(raw) : raw \in WorkflowReplies}

\* the bodies of PATCH /bids/{id}: a score and notes, annotations with a
\* reviewer note, annotations that are no objects, and one the handler
\* refuses
NotedAnnotations ==
    <<"[", "{", Quote, "q", "u", "o", "t", "e", Quote, ":", " ", Quote, "t", "h", "e", " ", "c",
    "a", "t", " ", "s", "a", "t", " ", "o", "n", " ", "t", "h", "e", " ", "m", "a", "t", Quote,
    ",", " ", Quote, "r", "e", "a", "s", "o", "n", Quote, ":", " ", Quote, "w", "h", "y",
    Quote, ",", " ", Quote, "p", "a", "g", "e", Quote, ":", " ", "1", ",", " ", Quote, "r",
    "e", "v", "i", "e", "w", "e", "r", "_", "n", "o", "t", "e", "s", Quote, ":", " ", Quote,
    "c", "h", "e", "c", "k", Quote, "}", "]">>
OddAnnotations ==
    <<"[", "{", Quote, "r", "e", "v", "i", "e", "w", "e", "r", "_", "n", "o", "t", "e", "s",
    Quote, ":", " ", "5", "}", ",", " ", "7", "]">>
HumanPayloads ==
    {[human_score |-> JFloat(<<"8", "0">>, <<>>), human_notes |-> JStr(<<"o", "k">>),
      ai_annotations |-> JNull],
     [human_score |-> JNull, human_notes |-> JNull, ai_annotations |-> JStr(NotedAnnotations)],
     [human_score |-> JNull, human_notes |-> JNull, ai_annotations |-> JStr(OddAnnotations)],
     [human_score |-> JNull, human_notes |-> JNull, ai_annotations |-> JStr(<<"{", "}">>)]}

\* the page texts the locator is given: a chunk that is no string has the
\* empty normal form (ocr_service.py lines 37-38), as an empty page has
PageTexts(elems) == [i \in 1..Len(elems) |-> IF elems[i].t = "str" THEN elems[i].v ELSE <<>>]

\* lines 324-331 and 421-428: the cached chunks, the pages of the file when
\* there are none
PagesFor(text_chunks) ==
    IF Truthy(text_chunks) THEN PageTexts(text_chunks.v) ELSE DocPages

\* an annotation of the result as the locator sees it; _norm_ann and the
\* mock leave every quote a string
AsLocated(ann) ==
    [isDict |-> ann.t = "obj",
     quote |-> IF ann.t = "obj" /\ GetKey(ann, K_quote).t = "str" THEN GetKey(ann, K_quote).v
               ELSE <<>>,
     page |-> Absent]

\* ocr_service.py lines 79-80: ann["page"] = found_page
WithFoundPage(ann, found) ==
    IF found = Absent THEN ann ELSE JObj(PutKey(ann.v, K_page, JInt(DigitsOf(found[1]))))

\* correct_annotation_pages(result["annotations"], page_texts or [])
CorrectedAnnotations(anns, pages) ==
    IF pages = <<>> \/ anns = <<>> THEN anns
    ELSE [k \in 1..Len(anns) |-> WithFoundPage(anns[k], CorrectOne(AsLocated(anns[k]), pages).page)]

HasAnnotations(res) == HasKey(res, K_annotations) /\ Truthy(GetKey(res, K_annotations))

\* the values the handlers may find text_chunks to have
ChunkValues == {LoadedChunks(column) : column \in StoredChunks}

\* lines 332 and 429 for every result and every value of text_chunks, worked
\* out once
Located ==
    [text_chunks \in ChunkValues |->
        [res \in WorkflowResults |->
            IF HasAnnotations(res)
            THEN CorrectedAnnotations(GetKey(res, K_annotations).v, PagesFor(text_chunks))
            ELSE <<>>]]

\* lines 312-322: score, reasoning, source and breakdown, each written only
\* when the result holds it
WithScore(row, score) ==
    LET float == FloatOf(score)
    IN  IF score = JNull THEN Returned(row)
        ELSE IF float.kind = "raised" THEN float
        ELSE Returned([row EXCEPT !.ai_score = float.val])

WithReasoning(row, reasoning) ==
    IF reasoning = JNull THEN row ELSE [row EXCEPT !.ai_reasoning = JStr(PyStr(reasoning))]

WithSource(row, source) ==
    IF Truthy(source) THEN [row EXCEPT !.ai_evaluation_source = JStr(PyStr(source))] ELSE row

WithBreakdown(row, res) ==
    IF HasKey(res, K_requirements_breakdown) /\ Truthy(GetKey(res, K_requirements_breakdown))
    THEN [row EXCEPT !.ai_requirements_breakdown =
                         JStr(JsonDumps(GetKey(res, K_requirements_breakdown)))]
    ELSE row


\* lines 312-322
WithFields(row, res) ==
    LET scored == WithScore(row, GetKey(res, K_score))
    IN  IF scored.kind = "raised" THEN scored
        ELSE Returned(WithBreakdown(WithSource(WithReasoning(scored.val, GetKey(res, K_reasoning)),
                                               GetKey(res, K_evaluation_source)),
                                    res))

\* lines 323-336: the annotations with their pages, or None, and the status
EvaluatedRow(row, res, text_chunks) ==
    LET fields == WithFields(row, res)
    IN  IF fields.kind = "raised" THEN fields
        ELSE Returned([fields.val EXCEPT
             !.ai_annotations =
                 IF HasAnnotations(res)
                 THEN JStr(JsonDumps(JArr(Located[text_chunks][res])))
                 ELSE JNull,
             !.status = "Evaluated"])

\* "- n1\n- n2": one line for each note
RECURSIVE NoteLines(_, _)
NoteLines(ns, i) ==
    IF i > Len(ns) THEN <<>>
    ELSE (IF i > 1 THEN <<"\n">> ELSE <<>>) \o <<"-", " ">> \o ns[i] \o NoteLines(ns, i + 1)

AnnotationNotesHeader ==
    <<"\n", "\n", "A", "n", "n", "o", "t", "a", "t", "i", "o", "n", " ", "n", "o", "t", "e", "s",
    " ", "f", "r", "o", "m", " ", "r", "e", "v", "i", "e", "w", "e", "r", ":", "\n">>

\* json.loads(bid.ai_annotations) if bid.ai_annotations else []
StoredAnnotations(column) ==
    IF Truthy(column) THEN JsonLoads(column.v) ELSE ParseOk(JArr(<<>>), 0)

\* (a.get("reviewer_notes") or "").strip() of each dict in the list
NotesOf(elems) == [i \in 1..Len(elems) |-> StripOrRaise(GetKey(elems[i], K_reviewer_notes))]

NonBlank(note) == note.v # <<>>

\* the texts of a list of strings
Texts(elems) == [i \in 1..Len(elems) |-> elems[i].v]

\* lines 389-395: the notes appended to the context; AttributeError leaves
\* the try, which catches JSONDecodeError and TypeError only
WithAnnotationNotes(context, annotation_notes) ==
    IF annotation_notes.kind = "raised" THEN annotation_notes
    ELSE IF SelectSeq(annotation_notes.val.v, NonBlank) = <<>> THEN Returned(JStr(context))
    ELSE Returned(JStr(context \o AnnotationNotesHeader
                       \o NoteLines(Texts(SelectSeq(annotation_notes.val.v, NonBlank)), 1)))

\* lines 383-384: the notes of the request, else the bid's, stripped
OwnContext(row, human_notes_context) ==
    IF Truthy(human_notes_context) THEN Strip(human_notes_context.v)
    ELSE IF Truthy(row.human_notes) THEN Strip(row.human_notes.v)
    ELSE <<>>

\* lines 386-397
NotedContext(context, stored) ==
    IF stored.ok /\ stored.val.t = "arr"
    THEN WithAnnotationNotes(context, Collected(NotesOf(SelectSeq(stored.val.v, IsDict))))
    ELSE Returned(JStr(context))

\* line 398: human_notes_context.strip() or None
StrippedOrNone(context) ==
    IF context.kind = "raised" THEN context
    ELSE IF Strip(context.val.v) = <<>> THEN Returned(JNull)
    ELSE Returned(JStr(Strip(context.val.v)))

\* lines 383-398: what evaluate_bid_with_context is given as the context
ReviewerContext(row, human_notes_context) ==
    StrippedOrNone(NotedContext(OwnContext(row, human_notes_context),
                                StoredAnnotations(row.ai_annotations)))

\* the slip of archiving the AI columns alone
HistoryRowOfScores(row) ==
    [bid_id |-> BID_ID,
     ai_score |-> row.ai_score,
     ai_reasoning |-> row.ai_reasoning,
     ai_requirements_breakdown |-> row.ai_requirements_breakdown,
     human_score |-> JNull,
     human_notes |-> JNull]

\* lines 364-371
HistoryRow(row) ==
    [bid_id |-> BID_ID,
     ai_score |-> row.ai_score,
     ai_reasoning |-> row.ai_reasoning,
     ai_requirements_breakdown |-> row.ai_requirements_breakdown,
     human_score |-> row.human_score,
     human_notes |-> row.human_notes]

\* lines 436-443 for one new annotation and the old one at its index
CarryNotes(na, oa) ==
    IF NonBlank(StripOrRaise(GetKey(oa, K_reviewer_notes)).val)
    THEN JObj(PutKey(na.v, K_reviewer_notes, GetKey(oa, K_reviewer_notes)))
    ELSE na

CarryStatus(na, oa) ==
    IF Truthy(GetKey(oa, K_verification_status))
    THEN JObj(PutKey(na.v, K_verification_status, GetKey(oa, K_verification_status)))
    ELSE na

CarryNote(na, oa) ==
    IF NonBlank(StripOrRaise(GetKey(oa, K_verification_note)).val)
    THEN JObj(PutKey(na.v, K_verification_note, GetKey(oa, K_verification_note)))
    ELSE na

CarryPage(na, oa) ==
    IF GetKey(na, K_page) = JNull /\ GetKey(oa, K_page) # JNull
    THEN JObj(PutKey(na.v, K_page, GetKey(oa, K_page)))
    ELSE na

CarriedOver(na, oa) == CarryPage(CarryNote(CarryStatus(CarryNotes(na, oa), oa), oa), oa)

\* line 434: the new annotation at index i has an old one to take from
Paired(new_ann, old_ann, i) ==
    /\ new_ann[i].t = "obj"
    /\ i <= Len(old_ann)
    /\ old_ann[i].t = "obj"

\* lines 436 and 440 raise AttributeError when the old note is no string
CarryRaises(oa) ==
    \/ StripOrRaise(GetKey(oa, K_reviewer_notes)).kind = "raised"
    \/ StripOrRaise(GetKey(oa, K_verification_note)).kind = "raised"

\* lines 430-445: the new annotations after the carry-over by index
Merged(new_ann, stored) ==
    IF ~(stored.ok /\ stored.val.t = "arr") THEN Returned(JArr(new_ann))
    ELSE IF \E i \in 1..Len(new_ann) :
                Paired(new_ann, stored.val.v, i) /\ CarryRaises(stored.val.v[i])
    THEN Raised(AttributeError)
    ELSE Returned(JArr([i \in 1..Len(new_ann) |->
                            IF Paired(new_ann, stored.val.v, i)
                            THEN CarriedOver(new_ann[i], stored.val.v[i])
                            ELSE new_ann[i]]))

\* lines 420-449
ReEvaluatedAnnotations(row, res, text_chunks) ==
    IF HasAnnotations(res)
    THEN Merged(Located[text_chunks][res], StoredAnnotations(row.ai_annotations))
    ELSE Returned(JNull)

WithAnnotations(row, anns) ==
    IF anns.kind = "raised" THEN anns
    ELSE Returned([row EXCEPT
             !.ai_annotations = IF anns.val = JNull THEN JNull ELSE JStr(JsonDumps(anns.val)),
             !.status = "Evaluated"])

\* lines 409-449
ReEvaluatedRow(row, res, text_chunks) ==
    LET fields == WithFields(row, res)
    IN  IF fields.kind = "raised" THEN fields
        ELSE WithAnnotations(fields.val, ReEvaluatedAnnotations(row, res, text_chunks))

\* the vendors _find_or_create_vendor may hand to extract_vendor, with the
\* e-mail addresses of their representatives
VendorRows ==
    <<[name |-> Acme, emails |-> <<JNull, JStr(<<" ">>), JStr(<<" ", "a", "@", "b", ".", "c">>)>>],
      [name |-> UnknownVendor, emails |-> <<>>]>>

\* rep.email and str(rep.email).strip()
HasAddress(email) == Truthy(email) /\ Strip(PyStr(email)) # <<>>

\* lines 524-529: the first address that is not blank, None without one
VendorEmail(row) ==
    IF row.vendor_id = JNull THEN JNull
    ELSE IF SelectSeq(VendorRows[NatOf(row.vendor_id.v)].emails, HasAddress) = <<>> THEN JNull
    ELSE JStr(Strip(PyStr(SelectSeq(VendorRows[NatOf(row.vendor_id.v)].emails, HasAddress)[1])))

\* the fixed parts of the notes of digital_agents.py, each one element of
\* the text; its curly quotes and its ellipsis are written as json.dumps
\* stores them
VerifyNoteHead == <<"Verification requested for: \\u201c">>
VerifyNoteTail == <<"\\u2026\\u201d (POC: no live lookup). Use external tools to verify.">>
NoEmailNote == <<"No vendor email on file. Add representative email to request information.">>
EmailNoteHead == <<"Request recorded to contact vendor at ">>
EmailNoteMid == <<" re: \\u201c">>
EmailNoteTail == <<"\\u2026\\u201d (POC: no email sent).">>
VERIFY_QUOTE_LEN == 80
EMAIL_QUOTE_LEN == 60

\* (annotation.get("quote") or "").strip() or "Excerpt"
QuoteOrExcerpt(quote) == IF quote = <<>> THEN Excerpt ELSE quote

\* digital_agents.py lines 61-71
ProcessAnnotationVerifyOnline(quote) ==
    [status |-> <<"p", "e", "n", "d", "i", "n", "g">>,
     note |-> VerifyNoteHead \o Prefix(QuoteOrExcerpt(quote), VERIFY_QUOTE_LEN) \o VerifyNoteTail]

\* digital_agents.py lines 74-87
ProcessAnnotationEmailVendor(quote, vendor_email) ==
    IF ~(Truthy(vendor_email) /\ Strip(PyStr(vendor_email)) # <<>>)
    THEN [status |-> <<"f", "a", "i", "l", "e", "d">>, note |-> NoEmailNote]
    ELSE [status |-> <<"e", "m", "a", "i", "l", "_", "s", "e", "n", "t">>,
          note |-> EmailNoteHead \o vendor_email.v \o EmailNoteMid
                   \o Prefix(QuoteOrExcerpt(quote), EMAIL_QUOTE_LEN) \o EmailNoteTail]

\* lines 518-520: the element at the index, {} when it is no dict
AnnotationAt(elems, index) == IF elems[index + 1].t = "obj" THEN elems[index + 1] ELSE JObj(<<>>)

\* the slip of storing the two keys alone
VerifiedDroppingKeys(elems, index, agent) ==
    [elems EXCEPT ![index + 1] =
        JObj(<< <<K_verification_status, JStr(agent.status)>>,
                <<K_verification_note, JStr(agent.note)>> >>)]

\* lines 531-533: the two keys written, the element put back
Verified(elems, index, agent) ==
    [elems EXCEPT ![index + 1] =
        JObj(PutKey(PutKey(AnnotationAt(elems, index).v, K_verification_status, JStr(agent.status)),
                    K_verification_note, JStr(agent.note)))]

\* lines 521-530
AgentResult(quote, action, vendor_email) ==
    IF action = "verify_online" THEN ProcessAnnotationVerifyOnline(quote)
    ELSE ProcessAnnotationEmailVendor(quote, vendor_email)

\* lines 507-534: the answer's code and the annotations column
VerifiedColumn(row, index, action) ==
    LET stored == StoredAnnotations(row.ai_annotations)
        quote == StripOrRaise(GetKey(AnnotationAt(stored.val.v, index), K_quote))
    IN  IF ~stored.ok THEN [code |-> 400, detail |-> "Invalid ai_annotations JSON"]
        ELSE IF stored.val.t # "arr"
        THEN [code |-> 400, detail |-> "ai_annotations must be an array"]
        ELSE IF index < 0 \/ index >= Len(stored.val.v)
        THEN [code |-> 400, detail |-> "Annotation index out of range"]
        ELSE IF quote.kind = "raised" THEN [code |-> 500, detail |-> "AttributeError"]
        ELSE [code |-> 200, detail |-> "",
              column |-> JStr(JsonDumps(JArr(Verified(stored.val.v, index,
                             AgentResult(quote.val.v, action, VendorEmail(row))))))]

\* the slip of leaving out the test of the lock
EnsureBidNotFinal(locked, row) ==
    IF row.status \in FINAL_BID_STATUSES
    THEN "Bid is already in a final state (Approved/Rejected); no edits allowed."
    ELSE ""

\* _ensure_bid_editable: the detail of the 400 it raises, "" when it
\* raises none
EnsureBidEditable(locked, row) ==
    IF locked THEN "Bids are locked for final decision; no edits or re-evaluation allowed."
    ELSE IF row.status \in FINAL_BID_STATUSES
    THEN "Bid is already in a final state (Approved/Rejected); no edits allowed."
    ELSE ""

\* db.commit() of a session that loaded the row as `loaded` and holds it
\* as `held`: the UPDATE sets the columns whose value it changed
CommitRow(loaded, held, current) ==
    [f \in DOMAIN current |-> IF held[f] # loaded[f] THEN held[f] ELSE current[f]]

AuditEvent(action, actor) == [bid_id |-> BID_ID, action |-> action, actor |-> actor]

\* a request may arrive: the answered and the pending ones stay within the bound
MayArrive == served + (IF job = NoJob THEN 0 ELSE 1) < MaxRequests

\* the answer to a request
Answer(request, code, detail) ==
    /\ response' = [to |-> request.to, request |-> request, code |-> code, detail |-> detail]
    /\ served' = served + 1

\* an HTTPException raised, or an exception that becomes a 500, before any
\* commit: the session is closed and nothing of it is stored
Refused(request, code, detail) ==
    /\ Answer(request, code, detail)
    /\ UNCHANGED <<bids_locked, bid, evaluation_history, audit_events>>

\* what a handler that awaits the service keeps while it waits
Waiting(request, context, archived) ==
    [kind |-> request.to,
     request |-> request,
     loaded |-> bid,
     text_chunks |-> LoadedChunks(bid.text_chunks),
     context |-> context,
     archived |-> archived]

\* evaluate_bid_endpoint, lines 283-310: up to the await
EvaluateBegin(bid_id) ==
    LET request == [to |-> "evaluate", bid_id |-> bid_id]
    IN
    /\ MayArrive
    /\ job = NoJob
    /\ IF bid_id # BID_ID
       THEN Refused(request, 404, "Bid not found") /\ UNCHANGED job
       ELSE IF EnsureBidEditable(bids_locked, bid) # ""
       THEN Refused(request, 400, EnsureBidEditable(bids_locked, bid)) /\ UNCHANGED job
       ELSE /\ job' = Waiting(request, JNull, <<>>)
            /\ UNCHANGED <<bids_locked, bid, evaluation_history, audit_events, response, served>>
    /\ UNCHANGED notWorkflow

\* ai_service.py line 177, reached without reviewer context
ServiceRaises(waiting) == waiting.context = JNull /\ SelectionRaises(waiting.text_chunks)

\* evaluate_bid_endpoint, lines 311-342: from the result to the answer
EvaluateFinish(res) ==
    /\ job # NoJob
    /\ job.kind = "evaluate"
    /\ job' = NoJob
    /\ LET held == EvaluatedRow(job.loaded, res, job.text_chunks)
       IN  IF ServiceRaises(job) THEN Refused(job.request, 500, "TypeError")
           ELSE IF held.kind = "raised" THEN Refused(job.request, 500, "ValueError")
           ELSE /\ bid' = CommitRow(job.loaded, held.val, bid)
                /\ audit_events' = Append(audit_events, AuditEvent("evaluated", "Reviewer"))
                /\ Answer(job.request, 200, "")
                /\ UNCHANGED <<bids_locked, evaluation_history>>
    /\ UNCHANGED notWorkflow

\* re_evaluate_bid_endpoint, lines 353-407: up to the await; the history
\* row is added and flushed in the transaction the result is committed in
ReEvaluateBegin(bid_id, human_notes_context) ==
    LET request == [to |-> "re-evaluate", bid_id |-> bid_id, human_notes_context |-> human_notes_context]
    IN
    /\ MayArrive
    /\ job = NoJob
    /\ IF bid_id # BID_ID
       THEN Refused(request, 404, "Bid not found") /\ UNCHANGED job
       ELSE IF EnsureBidEditable(bids_locked, bid) # ""
       THEN Refused(request, 400, EnsureBidEditable(bids_locked, bid)) /\ UNCHANGED job
       ELSE LET context == ReviewerContext(bid, human_notes_context)
            IN  IF context.kind = "raised"
                THEN Refused(request, 500, "AttributeError") /\ UNCHANGED job
                ELSE /\ job' = Waiting(request, context.val, <<HistoryRow(bid)>>)
                     /\ UNCHANGED <<bids_locked, bid, evaluation_history, audit_events, response, served>>
    /\ UNCHANGED notWorkflow

\* re_evaluate_bid_endpoint, lines 408-455
ReEvaluateFinish(res) ==
    /\ job # NoJob
    /\ job.kind = "re-evaluate"
    /\ job' = NoJob
    /\ LET held == ReEvaluatedRow(job.loaded, res, job.text_chunks)
       IN  IF ServiceRaises(job) THEN Refused(job.request, 500, "TypeError")
           ELSE IF held.kind = "raised" THEN Refused(job.request, 500, PyStr(held.val)[1])
           ELSE /\ bid' = CommitRow(job.loaded, held.val, bid)
                /\ evaluation_history' = evaluation_history \o job.archived
                /\ audit_events' = Append(audit_events, AuditEvent("evaluated", "Reviewer"))
                /\ Answer(job.request, 200, "")
                /\ UNCHANGED bids_locked
    /\ UNCHANGED notWorkflow

\* lines 474-482: whether the annotations of the payload are refused
BadAnnotations(payload) ==
    /\ payload.ai_annotations # JNull
    /\ LET arr == JsonLoads(payload.ai_annotations.v) IN ~(arr.ok /\ arr.val.t = "arr")

\* lines 470-478
HumanRow(row, payload) ==
    [row EXCEPT
        !.human_score = IF payload.human_score # JNull THEN payload.human_score ELSE @,
        !.human_notes = IF payload.human_notes # JNull THEN payload.human_notes ELSE @,
        !.ai_annotations = IF payload.ai_annotations # JNull THEN payload.ai_annotations ELSE @]

\* update_bid_human
UpdateBidHuman(bid_id, payload) ==
    LET request == [to |-> "human", bid_id |-> bid_id, payload |-> payload]
    IN
    /\ MayArrive
    /\ IF bid_id # BID_ID THEN Refused(request, 404, "Bid not found")
       ELSE IF EnsureBidEditable(bids_locked, bid) # ""
       THEN Refused(request, 400, EnsureBidEditable(bids_locked, bid))
       ELSE IF BadAnnotations(payload) THEN Refused(request, 400, "Invalid ai_annotations")
       ELSE /\ bid' = HumanRow(bid, payload)
            /\ audit_events' = Append(audit_events, AuditEvent("human_review", "Reviewer"))
            /\ Answer(request, 200, "")
            /\ UNCHANGED <<bids_locked, evaluation_history>>
    /\ UNCHANGED job
    /\ UNCHANGED notWorkflow

\* verify_annotation
VerifyAnnotation(bid_id, index, action) ==
    LET request == [to |-> "verify", bid_id |-> bid_id, index |-> index, action |-> action]
    IN
    /\ MayArrive
    /\ IF bid_id # BID_ID THEN Refused(request, 404, "Bid not found")
       ELSE IF EnsureBidEditable(bids_locked, bid) # ""
       THEN Refused(request, 400, EnsureBidEditable(bids_locked, bid))
       ELSE LET verified == VerifiedColumn(bid, index, action)
            IN  IF verified.code # 200 THEN Refused(request, verified.code, verified.detail)
                ELSE /\ bid' = [bid EXCEPT !.ai_annotations = verified.column]
                     /\ Answer(request, 200, "")
                     /\ UNCHANGED <<bids_locked, evaluation_history, audit_events>>
    /\ UNCHANGED job
    /\ UNCHANGED notWorkflow

\* status.lower() of the two statuses the handler accepts
LowerStatus(status) == IF status = "Approved" THEN "approved" ELSE "rejected"

\* update_bid_status
UpdateBidStatus(bid_id, status) ==
    LET request == [to |-> "status", bid_id |-> bid_id, status |-> status]
    IN
    /\ MayArrive
    /\ IF status \notin {"Approved", "Rejected"}
       THEN Refused(request, 400, "status must be 'Approved' or 'Rejected'")
       ELSE IF bid_id # BID_ID THEN Refused(request, 404, "Bid not found")
       ELSE IF bid.status \in FINAL_BID_STATUSES
       THEN Refused(request, 400, "Bid is already in a final state.")
       ELSE /\ bid' = [bid EXCEPT !.status = status]
            /\ audit_events' = Append(audit_events, AuditEvent(LowerStatus(status), "Approver"))
            /\ Answer(request, 200, "")
            /\ UNCHANGED <<bids_locked, evaluation_history>>
    /\ UNCHANGED job
    /\ UNCHANGED notWorkflow

\* rfps.py lock_rfp_bids
LockRfpBids(rfp_id) ==
    LET request == [to |-> "lock", rfp_id |-> rfp_id]
    IN
    /\ MayArrive
    /\ IF rfp_id # RFP_ID THEN Refused(request, 404, "RFP not found")
       ELSE /\ bids_locked' = TRUE
            /\ Answer(request, 200, "")
            /\ UNCHANGED <<bid, evaluation_history, audit_events>>
    /\ UNCHANGED job
    /\ UNCHANGED notWorkflow

\* extract_vendor, lines 162-167: up to the await
ExtractVendorBegin(bid_id) ==
    LET request == [to |-> "extract-vendor", bid_id |-> bid_id]
    IN
    /\ MayArrive
    /\ job = NoJob
    /\ IF bid_id # BID_ID
       THEN Refused(request, 404, "Bid not found") /\ UNCHANGED job
       ELSE /\ job' = Waiting(request, JNull, <<>>)
            /\ UNCHANGED <<bids_locked, bid, evaluation_history, audit_events, response, served>>
    /\ UNCHANGED notWorkflow

\* lines 169-170
AssignedRow(row, vendor_id) ==
    [row EXCEPT !.vendor_id = JInt(DigitsOf(vendor_id)),
                !.vendor_name = JStr(VendorRows[vendor_id].name)]

\* extract_vendor, lines 168-188; vendor_id = 0 when _find_or_create_vendor raises
ExtractVendorFinish(vendor_id) ==
    /\ job # NoJob
    /\ job.kind = "extract-vendor"
    /\ job' = NoJob
    /\ IF vendor_id = 0 THEN Refused(job.request, 500, "TypeError")
       ELSE /\ bid' = CommitRow(job.loaded, AssignedRow(job.loaded, vendor_id), bid)
            /\ Answer(job.request, 200, "")
            /\ UNCHANGED <<bids_locked, evaluation_history, audit_events>>
    /\ UNCHANGED notWorkflow

\* a bid as upload_bid stored it, on an RFP that is not locked
BidInit ==
    /\ bid \in {UploadedRow(column) : column \in StoredChunks}
    /\ bids_locked = FALSE
    /\ evaluation_history = <<>>
    /\ audit_events = <<>>
    /\ job = NoJob
    /\ response = NoResponse
    /\ served = 0
    /\ ChunkIdle
    /\ LocatorIdle
    /\ RepairIdle
    /\ EvalIdle
    /\ VendorIdle

\* the requests made: on the bid with each of the arguments, on the id no
\* bid has with one of them
StatusesAsked == {"Approved", "Rejected", "Evaluated"}
IndexesAsked == {-1, 0, 1}
AgentActions == {"verify_online", "email_vendor"}
ContextsAsked == {JNull, JStr(<<" ", "s", "e", "e", " ">>)}
OnTheBid(requests) ==
    {r \in requests : r.bid_id = BID_ID \/ r = CHOOSE q \in requests : q.bid_id # BID_ID}
ReEvaluateRequests == OnTheBid([bid_id : BidIds, human_notes_context : ContextsAsked])
HumanRequests == OnTheBid([bid_id : BidIds, payload : HumanPayloads])
VerifyRequests == OnTheBid([bid_id : BidIds, index : IndexesAsked, action : AgentActions])
StatusRequests == OnTheBid([bid_id : BidIds, status : StatusesAsked])

BidNext ==
    \/ \E bid_id \in BidIds : EvaluateBegin(bid_id)
    \/ \E res \in WorkflowResults : EvaluateFinish(res)
    \/ \E r \in ReEvaluateRequests : ReEvaluateBegin(r.bid_id, r.human_notes_context)
    \/ \E res \in WorkflowResults : ReEvaluateFinish(res)
    \/ \E r \in HumanRequests : UpdateBidHuman(r.bid_id, r.payload)
    \/ \E r \in VerifyRequests : VerifyAnnotation(r.bid_id, r.index, r.action)
    \/ \E r \in StatusRequests : UpdateBidStatus(r.bid_id, r.status)
    \/ \E rfp_id \in RfpIds : LockRfpBids(rfp_id)
    \/ \E bid_id \in BidIds : ExtractVendorBegin(bid_id)
    \/ \E vendor_id \in 0..Len(VendorRows) : ExtractVendorFinish(vendor_id)

SpecBid == BidInit /\ [][BidNext]_vars

\* the annotations stored before and after a step
AnnotationsBefore == StoredAnnotations(bid.ai_annotations).val.v
AnnotationsAfter == StoredAnnotations(bid'.ai_annotations).val.v

\* this step answers a verification request on the bid
VerifyAnswered ==
    /\ served' = served + 1
    /\ response'.to = "verify"
    /\ response'.request.bid_id = BID_ID

VerificationKeys == {K_verification_status, K_verification_note}
KeysOf(obj) == {obj.v[i][1] : i \in 1..Len(obj.v)}

\* two objects that differ in the verification status and note at most
SameButVerification(new, old) ==
    /\ new.t = "obj"
    /\ old.t = "obj"
    /\ KeysOf(new) \ VerificationKeys = KeysOf(old) \ VerificationKeys
    /\ \A k \in KeysOf(old) \ VerificationKeys : GetKey(new, k) = GetKey(old, k)

\* an object of the two verification fields in the place of a stored
\* element that is no object
ReplacedByVerification(new, old) ==
    /\ old.t # "obj"
    /\ new.t = "obj"
    /\ KeysOf(new) = VerificationKeys

\* every column but the annotations is kept, and every annotation but the
\* one at the index
OthersKept(before, after, index) ==
    /\ \A f \in DOMAIN bid \ {"ai_annotations"} : bid'[f] = bid[f]
    /\ Len(after) = Len(before)
    /\ \A j \in 1..Len(before) : j # index + 1 => after[j] = before[j]

OutOfRangeRefused == response'.code = 400 /\ bid' = bid

StatusAndNoteOnly(before, after, index) ==
    IF index >= 0 /\ index < Len(before)
    THEN \/ bid' = bid
         \/ /\ OthersKept(before, after, index)
            /\ SameButVerification(after[index + 1], before[index + 1])
    ELSE OutOfRangeRefused

TheIndexedElementOnly(before, after, index) ==
    IF index >= 0 /\ index < Len(before)
    THEN \/ bid' = bid
         \/ /\ OthersKept(before, after, index)
            /\ \/ SameButVerification(after[index + 1], before[index + 1])
               \/ ReplacedByVerification(after[index + 1], before[index + 1])
    ELSE OutOfRangeRefused

\* C23 as stated: an index out of range is answered with an error and changes
\* nothing; a valid index changes the verification status and note of the
\* annotation at the index and nothing else
VerifyChangesStatusAndNoteOnly ==
    [][VerifyAnswered =>
          StatusAndNoteOnly(AnnotationsBefore, AnnotationsAfter, response'.request.index)]_vars

\* C23: an index out of range is answered with an error and changes nothing;
\* a valid index changes the verification status and note of the annotation
\* at the index and nothing else, a stored element that is no object being
\* replaced by an object of these two fields
VerifyChangesTheIndexedElementOnly ==
    [][VerifyAnswered =>
          TheIndexedElementOnly(AnnotationsBefore, AnnotationsAfter, response'.request.index)]_vars

\* a verification of the first annotation went through and left its quote
VerifiedTheQuote ==
    /\ response.to = "verify"
    /\ response.code = 200
    /\ response.request.index = 0
    /\ GetKey(StoredAnnotations(bid.ai_annotations).val.v[1], K_quote) = JStr(CatQuote)
    /\ GetKey(StoredAnnotations(bid.ai_annotations).val.v[1], K_verification_status)
           = JStr(<<"p", "e", "n", "d", "i", "n", "g">>)

\* C24: no evaluation and no re-evaluation fails on what the bid has stored:
\* neither the chunk cache nor the stored annotations make the request end
\* in an exception
StoredDataNeverFails ==
    response.to \in {"evaluate", "re-evaluate"} =>
        ~(response.code = 500 /\ response.detail \in {"TypeError", "AttributeError"})

\* the columns a final bid is to keep
FinalColumns ==
    {"status", "ai_score", "ai_reasoning", "ai_annotations", "human_score", "human_notes",
     "vendor_id", "vendor_name"}

\* this step answers a request that has just arrived
ArrivalAnswered == served' = served + 1 /\ job' = job

EditRequests == {"evaluate", "re-evaluate", "human", "verify"}

\* C25: once the bid is Approved or Rejected, the evaluate, re-evaluate,
\* human-update, annotation-verify and status-update requests that arrive are
\* rejected, and no step changes its status, AI score, reasoning,
\* annotations, human score, human notes or vendor
FinalIsFinal ==
    [][bid.status \in FINAL_BID_STATUSES =>
          /\ \A f \in FinalColumns : bid'[f] = bid[f]
          /\ (/\ ArrivalAnswered
              /\ response'.to \in EditRequests \cup {"status"}
              /\ response'.request.bid_id = BID_ID) => response'.code = 400]_vars

ReEvaluateAnswered == served' = served + 1 /\ response'.to = "re-evaluate"

\* the history record holds the evaluation and the review of the row
Archives(record, row) ==
    /\ record.bid_id = BID_ID
    /\ record.ai_score = row.ai_score
    /\ record.ai_reasoning = row.ai_reasoning
    /\ record.ai_requirements_breakdown = row.ai_requirements_breakdown
    /\ record.human_score = row.human_score
    /\ record.human_notes = row.human_notes

\* C27: a re-evaluation answered with success appends one history record, of
\* the bid as the request found it, in the step that stores the new result;
\* one that is refused or fails appends none and stores nothing; no other
\* step changes the history
HistoryIsAppendOnly ==
    [][IF ReEvaluateAnswered /\ response'.code = 200
       THEN /\ Len(evaluation_history') = Len(evaluation_history) + 1
            /\ SubSeq(evaluation_history', 1, Len(evaluation_history)) = evaluation_history
            /\ Archives(evaluation_history'[Len(evaluation_history')], job.loaded)
            /\ bid'.ai_evaluation_source # JNull
       ELSE /\ evaluation_history' = evaluation_history
            /\ ReEvaluateAnswered => bid' = bid]_vars

\* a re-evaluation archived the first evaluation and the reviewer's score
ArchivedTheReview ==
    /\ response.to = "re-evaluate"
    /\ response.code = 200
    /\ Len(evaluation_history) = 1
    /\ evaluation_history[1].ai_score = JFloat(<<"7", "2">>, <<>>)
    /\ evaluation_history[1].human_score = JFloat(<<"8", "0">>, <<>>)
    /\ bid.ai_score # evaluation_history[1].ai_score

\* the quotes of the annotations of a list
QuotesOf(anns) ==
    [i \in 1..Len(anns) |-> IF anns[i].t = "obj" THEN GetKey(anns[i], K_quote) ELSE JNull]

\* the AI columns of the row are the ones this result alone gives
FromOneResult(row, res) ==
    /\ row.ai_score =
           IF GetKey(res, K_score) = JNull THEN JNull ELSE FloatOf(GetKey(res, K_score)).val
    /\ row.ai_reasoning =
           IF GetKey(res, K_reasoning) = JNull THEN JNull
           ELSE JStr(PyStr(GetKey(res, K_reasoning)))
    /\ row.ai_evaluation_source = JStr(PyStr(GetKey(res, K_evaluation_source)))
    /\ \/ row.ai_requirements_breakdown = JStr(JsonDumps(GetKey(res, K_requirements_breakdown)))
       \/ /\ row.ai_requirements_breakdown = JNull
          /\ ~Truthy(GetKey(res, K_requirements_breakdown))
    /\ QuotesOf(StoredAnnotations(row.ai_annotations).val.v) = QuotesOf(GetKey(res, K_annotations).v)

\* this step answers an evaluation or a re-evaluation with success, and no
\* other request has changed the bid since the request read it
EvaluationStored ==
    /\ served' = served + 1
    /\ response'.to \in {"evaluate", "re-evaluate"}
    /\ response'.code = 200
    /\ bid = job.loaded

\* C29: when an evaluation or a re-evaluation has stored its result, the
\* stored score, reasoning, breakdown, annotations and source are those of
\* one and the same result
AiColumnsFromOneResult ==
    [][EvaluationStored => \E res \in WorkflowResults : FromOneResult(bid', res)]_vars

CarriedKeys == {K_reviewer_notes, K_verification_status, K_verification_note}

\* the quote is on no page of the document, so the locator gave no page
Unlocated(ann) == FoundPage(NormalizeForSearch(Strip(GetKey(ann, K_quote).v)), DocPages) = Absent

\* the old annotations with the quote of the new one
SameQuote(old, na) == {j \in 1..Len(old) : old[j].t = "obj" /\ GetKey(old[j], K_quote) = GetKey(na, K_quote)}

\* what a new annotation holds of a reviewer's notes, a verification or a
\* fallback page is what an old annotation with its quote held
FromTheSameQuote(old, new) ==
    \A i \in 1..Len(new) :
        /\ \A k \in CarriedKeys :
               HasKey(new[i], k) => \E j \in SameQuote(old, new[i]) : GetKey(old[j], k) = GetKey(new[i], k)
        /\ (HasKey(new[i], K_page) /\ Unlocated(new[i])) =>
               \E j \in SameQuote(old, new[i]) : GetKey(old[j], K_page) = GetKey(new[i], K_page)

\* C30: a re-evaluation carries notes, verification and fallback page over
\* to the new annotation with the same quote only
CarriedToTheSameQuote ==
    [][(EvaluationStored /\ response'.to = "re-evaluate") =>
          FromTheSameQuote(AnnotationsBefore, AnnotationsAfter)]_vars

====
